---- MODULE Spec2Model ----
(***************************************************************************)
(* bfx-facs-auth-google: admin login, session tokens and their validation. *)
(*                                                                         *)
(* Strings that the code concatenates, splits or tests by prefix (tokens,  *)
(* ips, storage keys, password hashes) are sequences of characters or of   *)
(* colon-free chunks, so that \o is string concatenation.  Emails are      *)
(* TLA+ strings with toLowerCase given by a table.  A JavaScript value     *)
(* that may be null/undefined/false is the empty sequence, the empty       *)
(* string or the empty set.                                                *)
(***************************************************************************)
EXTENDS Integers, Sequences, FiniteSets, TLC

VARIABLES
  useRedis,     \* opts.useRedis: token backend, TRUE = redis, FALSE = mongodb
  useDB,        \* conf.useDB: TRUE = sqlite admin table, FALSE = conf.ADM_USERS
  admins,       \* rows of table admin_users
  redis,        \* keys of the redis instance: [key, value, expireAt]
  mongoTokens,  \* documents of the mongodb collection adminTokens
  now,          \* wall clock, milliseconds
  logins,       \* loginAdmin calls: position, arguments, locals, callback
  checks,       \* checkAdminRedis calls: position, arguments, locals, result
  adminOps,     \* number of admin operations called
  seq,          \* sqlite_sequence of admin_users: the largest id ever assigned
  adds,         \* addAdmin calls: position, argument, outcome
  adminCall,    \* the admin operation or query that returned last: arguments, outcome
  limits,       \* rows of table admin_level_daily_limits
  sets,         \* setAdminLevelDailyLimit calls: position, arguments, locals, outcome
  schema        \* the sqlite file: its tables, the columns of admin_users, the start

vars == <<useRedis, useDB, schema, admins, redis, mongoTokens, now, logins, checks, adminOps,
          seq, adds, adminCall, limits, sets>>

---------------------------------------------------------------------------
(* Bounds of the model *)

MaxLogins == 2
MaxSessions == 1
MaxChecks == 1
MaxTicks == 2
MaxJitterMs == 1
MaxAdminOps == 1
MaxAdds == 2
MaxSets == 2
MaxClockHours == 26

(* Program constants *)

MIN_ADMIN_LEVEL == 0
MAX_ADMIN_LEVEL == 4
TokenHours == 8
MsPerSecond == 1000

HourMs == 60 * 60 * MsPerSecond
EightHoursMs == TokenHours * HourMs
TickMs == 4 * HourMs
NoExpire == 0 - 1

---------------------------------------------------------------------------
(* Configuration and inputs *)

HashSalt == "s"

\* conf.ADM_USERS, as in the README: a password admin and a google-only one
ADM_USERS ==
  << [email |-> "A@x", password |-> <<"p1">>, level |-> 1],
     [email |-> "g@x", password |-> <<>>, level |-> 0] >>

toLowerCase(s) ==
  CASE s = "A@x" -> "a@x" [] s = "G@x" -> "g@x" [] s = "B@x" -> "b@x" [] OTHER -> s

ADM == <<"A", "D", "M">>
Ips == { <<"1">>, <<"f", ":", "1">> }

NoUser == [present |-> FALSE, keys |-> {}, username |-> "", password |-> <<>>]
\* a Google ID token: whether Google signed it, its audience, its email
NoIdToken == [signed |-> FALSE, aud |-> "", email |-> ""]
NoGoogle == [present |-> FALSE, keys |-> {}, clientKey |-> "", credential |-> NoIdToken]
UserKeys == {"username", "password"}
TokenKeys == {"access_token", "token_type", "expiry_date"}
CredentialKeys == {"credential"}

\* right password, wrong password, no stored password, unknown user, empty fields
Credentials ==
  { <<"a@x", <<"p1">>>>, <<"a@x", <<"p2">>>>, <<"g@x", <<"p1">>>>,
    <<"z@x", <<"p1">>>>, <<"", <<"p1">>>>, <<"a@x", <<>>>> }

CompleteUsers ==
  { [present |-> TRUE, keys |-> UserKeys, username |-> c[1], password |-> c[2]] :
      c \in Credentials }
PartialUsers ==
  { [present |-> TRUE, keys |-> {"username"}, username |-> "a@x", password |-> <<>>] }
CompleteGoogles ==
  { [NoGoogle EXCEPT !.present = TRUE, !.keys = k] : k \in {TokenKeys, CredentialKeys} }
PartialGoogles ==
  { [NoGoogle EXCEPT !.present = TRUE, !.keys = {"access_token", "token_type"}] }

\* what the identity provider answers: an exception, a payload without email, an email
ProviderAnswers ==
  { [threw |-> TRUE, email |-> ""], [threw |-> FALSE, email |-> ""],
    [threw |-> FALSE, email |-> "A@x"], [threw |-> FALSE, email |-> "z@x"] }

---------------------------------------------------------------------------
(* Password hasher *)

scrypt(password, salt) ==
  "scrypt(" \o (IF password = <<>> THEN "" ELSE password[1]) \o "," \o salt \o ")"

hash(password, salt) == <<salt, ":", scrypt(password, salt)>>

verify(password, h) ==
  LET salt == IF Len(h) >= 1 THEN h[1] ELSE ""
      key == IF Len(h) >= 3 /\ h[2] = ":" THEN h[3] ELSE ""
  IN key = scrypt(password, salt)

---------------------------------------------------------------------------
(* Admin directory *)

\* SQL NULL in a column of numbers
NULL == 0 - 1

\* the columns of admin_users that updateAdmin and addAdmin test with typeof boolean
Privileges ==
  { "readOnly", "blockPrivilege", "analyticsPrivilege", "manageAdminsPrivilege",
    "fetchMotivationsPrivilege" }

\* a row as INSERT leaves it when only email, password and level are given; a TEXT
\* column is the empty sequence or the empty set when it holds NULL
NewRow(id, email, password, level) ==
  [id |-> id, email |-> email, password |-> password, level |-> level, active |-> 1,
   readOnly |-> NULL, blockPrivilege |-> NULL, analyticsPrivilege |-> NULL,
   manageAdminsPrivilege |-> NULL, fetchMotivationsPrivilege |-> NULL,
   passwordResetToken |-> <<>>, passwordResetSentAt |-> NULL, dailyLimitConfig |-> {},
   forms |-> {}]

SeedRow(i) ==
  NewRow(i, ADM_USERS[i].email,
         IF ADM_USERS[i].password # <<>>
           THEN hash(ADM_USERS[i].password, HashSalt) ELSE <<>>,
         ADM_USERS[i].level)

_saveAdminsFromConfig == { SeedRow(i) : i \in DOMAIN ADM_USERS }

_getAdminFromDB(email, active) ==
  LET rows == { r \in admins : /\ toLowerCase(r.email) = toLowerCase(email)
                                /\ (active => r.active = 1) }
  IN IF rows = {} THEN {}
     ELSE { CHOOSE r \in rows : \A q \in rows : r.id <= q.id }

_getAdminFromConfig(email) ==
  LET hit == { i \in DOMAIN ADM_USERS :
                 toLowerCase(ADM_USERS[i].email) = toLowerCase(email) }
  IN IF hit = {} THEN {}
     ELSE { ADM_USERS[CHOOSE i \in hit : \A j \in hit : i <= j] }

_getAdmin(email, active) ==
  IF email = "" THEN {}
  ELSE IF useDB THEN _getAdminFromDB(email, active)
  ELSE _getAdminFromConfig(email)

\* the one row of a non-empty lookup result
Row(found) == CHOOSE r \in found : TRUE

\* const { email, password, level, ...extra } = admin
Extra(row) == [k \in DOMAIN row \ {"email", "password", "level"} |-> row[k]]

\* whether the lookup of this email goes to the database, and so can fail
ReadsDB(email) == useDB /\ email # ""

\* basicAuthAdmLogCheck over every row, active or not
basicAuthAdmLogCheckAnyRow(sentEmail, sentPassword) ==
  LET admin == _getAdmin(sentEmail, FALSE)
      isValidPassword ==
        IF useDB
          THEN /\ sentPassword # <<>>
               /\ admin # {}
               /\ Row(admin).password # <<>>
               /\ verify(sentPassword, Row(admin).password)
          ELSE admin # {} /\ Row(admin).password = sentPassword
  IN IF admin # {} /\ Row(admin).password # <<>> /\ isValidPassword
       THEN [valid |-> TRUE, admin |-> admin]
       ELSE [valid |-> FALSE, admin |-> {}]

basicAuthAdmLogCheck(sentEmail, sentPassword) ==
  LET admin == _getAdmin(sentEmail, TRUE)
      isValidPassword ==
        IF useDB
          THEN /\ sentPassword # <<>>
               /\ admin # {}
               /\ Row(admin).password # <<>>
               /\ verify(sentPassword, Row(admin).password)
          ELSE admin # {} /\ Row(admin).password = sentPassword
  IN IF admin # {} /\ Row(admin).password # <<>> /\ isValidPassword
       THEN [valid |-> TRUE, admin |-> admin]
       ELSE [valid |-> FALSE, admin |-> {}]

_whiteListEmail(sentEmail) ==
  LET admin == _getAdmin(sentEmail, TRUE)
  IN IF admin = {} THEN [valid |-> FALSE, admin |-> {}]
     ELSE [valid |-> TRUE, admin |-> admin]

\* checkAdmAccessLevel over every row, active or not
checkAdmAccessLevelAnyRow(adminEmail, level) ==
  LET admin == _getAdmin(adminEmail, FALSE)
  IN admin # {} /\ Row(admin).level <= level

checkAdmAccessLevel(adminEmail, level) ==
  LET admin == _getAdmin(adminEmail, TRUE)
  IN admin # {} /\ Row(admin).level <= level

\* JavaScript truthiness of a column value: NULL (and undefined) and 0 are falsy
Truthy(x) == x # NULL /\ x # 0

\* admin.k, undefined when the object has no such key (an entry of conf.ADM_USERS)
Field(row, k) == IF k \in DOMAIN row THEN row[k] ELSE NULL

\* how a privilege check ends: throw new Error(...) or return !!(...)
Answer(admin, granted) ==
  IF admin = {} THEN [err |-> "Searched admin was not found", res |-> {}]
  ELSE [err |-> "", res |-> {granted}]

checkAdmIsReadOnly(adminEmail) ==
  LET admin == _getAdmin(adminEmail, TRUE)
  IN Answer(admin, Truthy(Field(Row(admin), "readOnly")))

checkAdmHasBlockPrivilege(adminEmail) ==
  LET admin == _getAdmin(adminEmail, TRUE)
  IN Answer(admin, Row(admin).level = 0 \/ Truthy(Field(Row(admin), "blockPrivilege")))

checkAdmHasAnalyticsPrivilege(adminEmail) ==
  LET admin == _getAdmin(adminEmail, TRUE)
  IN Answer(admin, Row(admin).level = 0 \/ Truthy(Field(Row(admin), "analyticsPrivilege")))

\* the manage-admins check with the rule of the other privileges
checkAdmHasManageAdminsPrivilegeOr(adminEmail) ==
  LET admin == _getAdmin(adminEmail, TRUE)
  IN Answer(admin, Row(admin).level = 0
                     \/ Truthy(Field(Row(admin), "manageAdminsPrivilege")))

checkAdmHasManageAdminsPrivilege(adminEmail) ==
  LET admin == _getAdmin(adminEmail, TRUE)
  IN Answer(admin, Row(admin).level = 0
                     /\ Truthy(Field(Row(admin), "manageAdminsPrivilege")))

checkAdmHasFetchMotivationsPrivilege(adminEmail) ==
  LET admin == _getAdmin(adminEmail, TRUE)
  IN Answer(admin, Row(admin).level = 0
                     \/ Truthy(Field(Row(admin), "fetchMotivationsPrivilege")))

\* a DailyLimitConfigsByCategory object is the set of its entries
\* [category, alert, block]; a value that may be null or undefined is the empty
\* set or the set of the one object.  JSON.stringify of the object is its text;
\* the text 'null' reads back as null and is not told apart from NULL.  The list
\* of forms, a sequence, is stringified and parsed in the same way
stringifyConfig(dailyLimitConfig) == { <<"json", m>> : m \in dailyLimitConfig }

\* JSON.parse of the column when it holds a text
parseConfig(text) == { t[2] : t \in text }

\* the modelled columns among getAdmin's displayKeys
displayKeys ==
  { "email", "level", "blockPrivilege", "analyticsPrivilege", "manageAdminsPrivilege",
    "fetchMotivationsPrivilege", "readOnly", "active", "forms", "dailyLimitConfig" }

\* SHOULD_STRINGIFY.forEach: with the database, a column that holds a text is parsed
parseColumns(admin) ==
  IF useDB THEN [admin EXCEPT !.forms = parseConfig(@),
                              !.dailyLimitConfig = parseConfig(@)]
  ELSE admin

\* _.pick(admin, displayKeys)
pick(row, keys) == [k \in DOMAIN row \cap keys |-> row[k]]

\* getAdmin that never filters on active
getAdminAnyRow(email, active) ==
  IF email.isNum
    THEN IF email.num = 0 \/ (~useDB /\ Len(ADM_USERS) = 0)
           THEN [err |-> "", res |-> {}]
           ELSE [err |-> "TypeError", res |-> {}]
    ELSE LET admin == _getAdmin(email.text, FALSE)
         IN [err |-> "",
             res |-> IF admin = {} THEN {}
                     ELSE { pick(parseColumns(Row(admin)), displayKeys) }]

\* getAdmin(email, active), email an identifier record: a number that is not 0
\* passes `!email` and has no toLowerCase
getAdmin(email, active) ==
  IF email.isNum
    THEN IF email.num = 0 \/ (~useDB /\ Len(ADM_USERS) = 0)
           THEN [err |-> "", res |-> {}]
           ELSE [err |-> "TypeError", res |-> {}]
    ELSE LET admin == _getAdmin(email.text, active)
         IN [err |-> "",
             res |-> IF admin = {} THEN {}
                     ELSE { pick(parseColumns(Row(admin)), displayKeys) }]

---------------------------------------------------------------------------
(* Token storage *)

_tokenKey(query) == <<"adminTokens", ":">> \o query.token \o <<":">> \o query.ip

\* Date.prototype.toJSON: the ISO text of the instant, to the millisecond
toISOString(ms) == <<"iso", ms>>

\* JSON.stringify(query): expires_at, a Date, becomes its ISO text
JSONstringify(query) == <<"json", [query EXCEPT !.expires_at = toISOString(@)]>>

\* JSON.parse(json): null for a missing key; dates stay text
JSONparse(json) == { j[2] : j \in json }

\* keys redis still serves at the current time
Live == { e \in redis : e.expireAt = NoExpire \/ now < e.expireAt }

redisGet(key) == { e.value : e \in { l \in Live : l.key = key } }

\* MULTI [set key value, expire key seconds] issued at time `at`: SET replaces the
\* key and clears its ttl; EXPIRE takes whole seconds only, any other argument is a
\* command error that exec reports in its result array, which the code never reads
redisSetExpire(key, value, ttlMs, at) ==
  { e \in redis : e.key # key } \cup
  { [key |-> key, value |-> value,
     expireAt |-> IF ttlMs % MsPerSecond = 0 THEN at + ttlMs ELSE NoExpire] }

preAdminTokenCheck(authToken) ==
  IF Len(authToken) = 2 /\ authToken[1] # <<>>
    THEN Len(authToken[1]) >= Len(ADM) /\ SubSeq(authToken[1], 1, Len(ADM)) = ADM
    ELSE FALSE

---------------------------------------------------------------------------
(* Calls in progress *)

IdleLogin ==
  [pc |-> "idle", user |-> NoUser, google |-> NoGoogle, ip |-> <<>>,
   email |-> "", admin |-> {}, touched |-> {}, storeErr |-> FALSE,
   token |-> <<>>, expires_at |-> 0, cbCalls |-> 0, err |-> "", res |-> {}]

IdleCheck ==
  [pc |-> "idle", authToken |-> <<>>, level |-> 0, data |-> {},
   startedAt |-> 0, result |-> ""]

\* an identifier argument: an email, or a number (`${idOrEmail}` is its text)
Text(email) == [isNum |-> FALSE, num |-> 0, text |-> email]
ById(n) == [isNum |-> TRUE, num |-> n, text |-> ToString(n)]

\* a user object without any key; `keys` is Object.keys(user)
NoFields ==
  [keys |-> {}, id |-> 0, email |-> "", password |-> <<>>, level |-> 0, active |-> FALSE,
   readOnly |-> FALSE, blockPrivilege |-> FALSE, analyticsPrivilege |-> FALSE,
   manageAdminsPrivilege |-> FALSE, fetchMotivationsPrivilege |-> FALSE,
   passwordResetToken |-> <<>>, passwordResetSentAt |-> 0, dailyLimitConfig |-> {},
   forms |-> {}]

IdleAdd == [pc |-> "idle", user |-> NoFields, err |-> "", res |-> {}]

\* a JavaScript value given where a number is expected: null or undefined, an
\* integer, or anything else (1.1, 'non numeric value')
Nil == [t |-> "nil", n |-> 0]
Integer(n) == [t |-> "int", n |-> n]
Other == [t |-> "other", n |-> 0]

\* `${level}`
Quoted(v) ==
  CASE v.t = "int" -> ToString(v.n) [] v.t = "nil" -> "undefined"
    [] OTHER -> "non numeric value"

\* the outcome of a daily-limit call: the name of the error, its message without
\* the value it quotes, and that value
Failure(name, message, value) == [name |-> name, message |-> message, value |-> value]
NoError == Failure("", "", "")

VALID_DAILY_LIMIT_CATEGORIES == {"opened", "displayed"}

isNil(v) == v.t = "nil"

\* Number.isInteger(v) && v >= 0
NonNegativeInteger(v) == v.t = "int" /\ v.n >= 0

IdleSet ==
  [pc |-> "idle", level |-> Nil, category |-> "", alert |-> Nil, block |-> Nil,
   existingLevelDailyLimit |-> {}, err |-> NoError, res |-> {}]

\* `turn` alternates from one return to the next
NoCall ==
  [turn |-> 0, op |-> "", target |-> Text(""), user |-> NoFields, active |-> TRUE,
   level |-> 0, oldPassword |-> <<>>, passwordResetToken |-> <<>>, at |-> 0,
   err |-> "", res |-> {}]

\* cb(err) / cb(null, res)
Cb(l, err, res) ==
  [l EXCEPT !.pc = "done", !.cbCalls = @ + 1, !.err = err, !.res = res]

\* an async function whose promise rejects with nobody awaiting it
Reject(l) == [l EXCEPT !.pc = "rejected", !.storeErr = TRUE]

\* shared.js: the table names the facility and its migrations look up by key; a
\* key that DB_TABLES does not have yields undefined, which a template literal
\* prints as the text 'undefined'
DB_TABLES ==
  [ADMIN_USERS |-> "admin_users", ADMIN_LEVEL_DAILY_LIMITS |-> "admin_level_daily_limits"]

TableNamed(key) == IF key \in DOMAIN DB_TABLES THEN DB_TABLES[key] ELSE "undefined"

\* the columns of `CREATE TABLE IF NOT EXISTS admin_users (...)`; its last two
\* lines, `forms TEXT` and `dailyLimitConfig TEXT`, have no comma between them,
\* which sqlite reads as the one column forms with a type name of three words
runSqlAtStartColumns ==
  { "id", "email", "password", "level", "active", "readOnly", "blockPrivilege",
    "analyticsPrivilege", "manageAdminsPrivilege", "passwordResetToken",
    "passwordResetSentAt", "company", "timestamp", "forms" }

AddColumn(name) == [add |-> "column", name |-> name]
AddTable(key) == [add |-> "table", name |-> TableNamed(key)]

\* migrations.js holds two texts of the list: lines 1-100 and lines 102-192
migrations(list) ==
  <<AddColumn("manageAdminsPrivilege"), AddColumn("forms"),
    AddColumn("passwordResetSentAt"), AddColumn("passwordResetToken"),
    AddColumn("fetchMotivationsPrivilege")>>
  \o (IF list = 1
        THEN <<AddTable("ADMIN_LEVEL_DAILY_LIMITS"), AddTable("ADMIN_USER_DAILY_LIMITS")>>
        ELSE <<AddColumn("dailyLimitConfig"), AddTable("LEVEL_DAILY_LIMITS")>>)

NoDatabase == [tables |-> {}, columns |-> {}, err |-> ""]

\* CREATE TABLE IF NOT EXISTS admin_users (...)
runSqlAtStart(db) ==
  IF DB_TABLES.ADMIN_USERS \in db.tables THEN db
  ELSE [db EXCEPT !.tables = @ \cup {DB_TABLES.ADMIN_USERS},
                  !.columns = runSqlAtStartColumns]

\* ALTER TABLE admin_users ADD <name>, which sqlite refuses for a column it has
AlterTableAdd(db, name) ==
  IF name \in db.columns THEN [db EXCEPT !.err = "duplicate column name"]
  ELSE [db EXCEPT !.columns = @ \cup {name}]

\* one migration: the look at table_info or sqlite_master, `return cb()` if the
\* column or table is found, else the ALTER TABLE or CREATE TABLE IF NOT EXISTS
Migrate(db, m) ==
  IF m.add = "column"
    THEN IF m.name \in db.columns THEN db ELSE AlterTableAdd(db, m.name)
    ELSE IF m.name \in db.tables THEN db ELSE [db EXCEPT !.tables = @ \cup {m.name}]

RECURSIVE MigrateFrom(_, _, _)
MigrateFrom(db, list, k) ==
  IF k > Len(migrations(list)) \/ db.err # "" THEN db
  ELSE MigrateFrom(Migrate(db, migrations(list)[k]), list, k + 1)

\* the file after the first start of the facility, with the list of lines 102-192
Started ==
  [pc |-> "started", list |-> 2, next |-> 0, ran |-> {2}, runs |-> 0,
   db |-> MigrateFrom(runSqlAtStart(NoDatabase), 2, 1)]

\* config-only mode: _start returns before it opens a database
NotStarted ==
  [pc |-> "started", list |-> 0, next |-> 0, ran |-> {}, runs |-> 0, db |-> NoDatabase]

StoresUnchanged ==
  UNCHANGED <<useRedis, useDB, schema, admins, redis, mongoTokens, now, adminOps, seq, adds,
              adminCall,
                 limits, sets>>

Init ==
  /\ useRedis \in BOOLEAN
  /\ useDB \in BOOLEAN
  /\ admins = IF useDB THEN _saveAdminsFromConfig ELSE {}
  /\ redis = {}
  /\ mongoTokens = {}
  /\ now = 0
  /\ logins = [i \in 1..MaxLogins |-> IdleLogin]
  /\ checks = [v \in 1..MaxChecks |-> IdleCheck]
  /\ adminOps = 0
  /\ seq = IF useDB THEN Len(ADM_USERS) ELSE 0
  /\ adds = [a \in 1..MaxAdds |-> IdleAdd]
  /\ adminCall = NoCall
  /\ limits = {}
  /\ sets = [c \in 1..MaxSets |-> IdleSet]
  /\ schema = IF useDB THEN Started ELSE NotStarted

---------------------------------------------------------------------------
(* Login orchestrator *)

\* loginAdmin with the completeness test that knows the token form only
loginAdminTokenFormOnly(i, user, google, ip) ==
  /\ logins[i].pc = "idle"
  /\ \A j \in 1..(i - 1) : logins[j].pc # "idle"
  /\ LET l == [logins[i] EXCEPT !.user = user, !.google = google, !.ip = ip]
         complete ==
           IF user.present
             THEN UserKeys \subseteq user.keys
             ELSE TokenKeys \subseteq google.keys
     IN logins' = [logins EXCEPT ![i] =
          IF ~user.present /\ ~google.present
            THEN Cb(l, "AUTH_FAC_LOGIN_KEYS_MISSING", {})
          ELSE IF ~complete
            THEN Cb(l, "AUTH_FAC_LOGIN_KEYS_MISSING", {})
          ELSE IF user.present
            THEN [l EXCEPT !.pc = "pass"]
            ELSE [l EXCEPT !.pc = "google"]]
  /\ StoresUnchanged
  /\ UNCHANGED checks

loginAdmin(i, user, google, ip) ==
  /\ logins[i].pc = "idle"
  /\ \A j \in 1..(i - 1) : logins[j].pc # "idle"
  /\ LET l == [logins[i] EXCEPT !.user = user, !.google = google, !.ip = ip]
         complete ==
           IF user.present
             THEN UserKeys \subseteq user.keys
             ELSE TokenKeys \subseteq google.keys \/ CredentialKeys \subseteq google.keys
     IN logins' = [logins EXCEPT ![i] =
          IF ~user.present /\ ~google.present
            THEN Cb(l, "AUTH_FAC_LOGIN_KEYS_MISSING", {})
          ELSE IF ~complete
            THEN Cb(l, "AUTH_FAC_LOGIN_KEYS_MISSING", {})
          ELSE IF user.present
            THEN [l EXCEPT !.pc = "pass"]
            ELSE [l EXCEPT !.pc = "google"]]
  /\ StoresUnchanged
  /\ UNCHANGED checks

\* await basicAuthAdmLogCheck(username, password), the lookup answering
_loginAdminPass(i) ==
  /\ logins[i].pc = "pass"
  /\ LET l == [logins[i] EXCEPT !.touched = @ \cup {"directory"}]
         r == basicAuthAdmLogCheck(l.user.username, l.user.password)
     IN logins' = [logins EXCEPT ![i] =
          IF r.valid
            THEN [l EXCEPT !.pc = "create", !.email = l.user.username, !.admin = r.admin]
            ELSE Cb(l, "AUTH_FAC_LOGIN_INCORRECT_USERNAME_PASSWORD", {})]
  /\ StoresUnchanged
  /\ UNCHANGED checks

\* the same await with db.get reporting an error: no try/catch, the rejection
\* leaves _loginAdminPass and cb is never called
_loginAdminPassDbError(i) ==
  /\ logins[i].pc = "pass"
  /\ ReadsDB(logins[i].user.username)
  /\ logins' = [logins EXCEPT ![i] = Reject([@ EXCEPT !.touched = @ \cup {"directory"}])]
  /\ StoresUnchanged
  /\ UNCHANGED checks

\* oAuth2Client.verifyIdToken({ idToken }): called without an audience, the library
\* checks the signature and the expiry of the token and returns its payload
verifyIdToken(idToken) ==
  IF idToken.signed THEN [threw |-> FALSE, email |-> idToken.email]
  ELSE [threw |-> TRUE, email |-> ""]

\* await googleEmailFromToken(params): userInfo?.email, or the provider's exception
_loginAdminGoogle(i, answer) ==
  /\ logins[i].pc = "google"
  /\ LET l == [logins[i] EXCEPT !.touched = @ \cup {"provider"}]
     IN logins' = [logins EXCEPT ![i] =
          IF answer.threw
            THEN Cb(l, "AUTH_FAC_INCORRECT_GOOGLE_TOKEN", {})
            ELSE [l EXCEPT !.pc = "whitelist", !.email = answer.email]]
  /\ StoresUnchanged
  /\ UNCHANGED checks

\* await _validAdminUserGoogleEmail(email)
_validAdminUserGoogleEmail(i) ==
  /\ logins[i].pc = "whitelist"
  /\ LET l == [logins[i] EXCEPT !.touched = @ \cup {"directory"}]
         r == _whiteListEmail(l.email)
     IN logins' = [logins EXCEPT ![i] =
          IF r.valid
            THEN [l EXCEPT !.pc = "create", !.admin = r.admin]
            ELSE Cb(l, "AUTH_FAC_ACCOUNT_IS_NOT_VALID", {})]
  /\ StoresUnchanged
  /\ UNCHANGED checks

\* the same await with db.get reporting an error: caught by the catch of
\* _loginAdminGoogle
_validAdminUserGoogleEmailDbError(i) ==
  /\ logins[i].pc = "whitelist"
  /\ ReadsDB(logins[i].email)
  /\ logins' = [logins EXCEPT ![i] =
       Cb([@ EXCEPT !.touched = @ \cup {"directory"}, !.storeErr = TRUE],
          "AUTH_FAC_INCORRECT_GOOGLE_TOKEN", {})]
  /\ StoresUnchanged
  /\ UNCHANGED checks

\* uuidv4(): a value that no other call draws
uuidv4(i) == <<ToString(i)>>

\* what _createUniqueAndExpireDbToken leaves in the stores when the write is accepted;
\* elapsed = the milliseconds between the two `new Date()`
_createUniqueAndExpireDbToken(query, elapsed) ==
  IF ~useRedis
    THEN [mongo |-> mongoTokens \cup {query}, redis |-> redis]
    ELSE [mongo |-> mongoTokens,
          redis |-> redisSetExpire(_tokenKey(query), JSONstringify(query),
                                   query.expires_at - (now + elapsed), now + elapsed)]

\* _createAdminToken reporting success without awaiting the write
_createAdminTokenNoAwait(i, elapsed, accepted) ==
  /\ logins[i].pc = "create"
  /\ LET l == [logins[i] EXCEPT !.touched = @ \cup {"tokenStore"}]
         row == Row(l.admin)
         token == ADM \o <<"-">> \o uuidv4(i)
         exp == now + EightHoursMs
         query == [username |-> l.email, token |-> token, ip |-> l.ip,
                   level |-> row.level, expires_at |-> exp]
         written == _createUniqueAndExpireDbToken(query, elapsed)
     IN /\ mongoTokens' = IF accepted THEN written.mongo ELSE mongoTokens
        /\ redis' = IF accepted THEN written.redis ELSE redis
        /\ logins' = [logins EXCEPT ![i] =
             Cb([l EXCEPT !.token = token, !.expires_at = exp], "",
                { [username |-> l.email, token |-> token, level |-> row.level,
                   extra |-> Extra(row), expires_at |-> exp] })]
  /\ now' = now + elapsed
  /\ UNCHANGED <<useRedis, useDB, schema, admins, adminOps, checks, seq, adds, adminCall,
                 limits, sets>>

_createAdminToken(i, elapsed, accepted) ==
  /\ logins[i].pc = "create"
  /\ LET l == [logins[i] EXCEPT !.touched = @ \cup {"tokenStore"}]
         row == Row(l.admin)
         token == ADM \o <<"-">> \o uuidv4(i)
         exp == now + EightHoursMs
         query == [username |-> l.email, token |-> token, ip |-> l.ip,
                   level |-> row.level, expires_at |-> exp]
         written == _createUniqueAndExpireDbToken(query, elapsed)
     IN IF accepted
          THEN /\ mongoTokens' = written.mongo
               /\ redis' = written.redis
               /\ logins' = [logins EXCEPT ![i] =
                    Cb([l EXCEPT !.token = token, !.expires_at = exp], "",
                       { [username |-> l.email, token |-> token, level |-> row.level,
                          extra |-> Extra(row), expires_at |-> exp] })]
          ELSE /\ UNCHANGED <<mongoTokens, redis>>
               /\ logins' = [logins EXCEPT ![i] =
                    Cb(l, "AUTH_FAC_ADMIN_TOKEN_CREATE_ERROR", {})]
  /\ now' = now + elapsed
  /\ UNCHANGED <<useRedis, useDB, schema, admins, adminOps, checks, seq, adds, adminCall,
                 limits, sets>>

---------------------------------------------------------------------------
(* Token validation *)

\* precheck, then await redis get
checkAdminRedis(v, authToken, level) ==
  /\ checks[v].pc = "idle"
  /\ \A w \in 1..(v - 1) : checks[w].pc # "idle"
  /\ LET c == [checks[v] EXCEPT !.authToken = authToken, !.level = level,
                                !.startedAt = now]
     IN checks' = [checks EXCEPT ![v] =
          IF ~preAdminTokenCheck(authToken)
            THEN [c EXCEPT !.pc = "done", !.result = "false"]
          ELSE LET data == JSONparse(redisGet(_tokenKey([token |-> authToken[1],
                                                         ip |-> authToken[2].ip])))
               IN IF data = {}
                    THEN [c EXCEPT !.pc = "done", !.result = "null"]
                    ELSE [c EXCEPT !.pc = "access", !.data = data]]
  /\ StoresUnchanged
  /\ UNCHANGED logins

\* a validation that trusts the level stored in the token record
checkAdminRedisAccessSnapshot(v) ==
  /\ checks[v].pc = "access"
  /\ LET data == CHOOSE d \in checks[v].data : TRUE
     IN checks' = [checks EXCEPT ![v] =
          [@ EXCEPT !.pc = "done",
                    !.result = IF data.level <= checks[v].level THEN "true" ELSE "false"]]
  /\ StoresUnchanged
  /\ UNCHANGED logins

\* data && this.checkAdmAccessLevel(data.username, level)
checkAdminRedisAccess(v) ==
  /\ checks[v].pc = "access"
  /\ LET data == CHOOSE d \in checks[v].data : TRUE
     IN checks' = [checks EXCEPT ![v] =
          [@ EXCEPT !.pc = "done",
                    !.result = IF checkAdmAccessLevel(data.username, checks[v].level)
                                 THEN "true" ELSE "false"]]
  /\ StoresUnchanged
  /\ UNCHANGED logins

\* the directory read of checkAdmAccessLevel reporting an error
checkAdminRedisDbError(v) ==
  /\ checks[v].pc = "access"
  /\ ReadsDB((CHOOSE d \in checks[v].data : TRUE).username)
  /\ checks' = [checks EXCEPT ![v] = [@ EXCEPT !.pc = "rejected"]]
  /\ StoresUnchanged
  /\ UNCHANGED logins

---------------------------------------------------------------------------
(* Admin table mutations *)

\* values as sqlite3 binds them
Bind(b) == IF b THEN 1 ELSE 0

\* _validateDailyLimitConfig: whether its assertion passes; null, undefined and
\* the object without keys pass
_validateDailyLimitConfig(dailyLimitConfig) ==
  \A m \in dailyLimitConfig :
    \A e \in m : /\ e.category \in VALID_DAILY_LIMIT_CATEGORIES
                 /\ NonNegativeInteger(e.alert) /\ NonNegativeInteger(e.block)

Max(S) == CHOOSE x \in S : \A y \in S : y <= x

\* the row after SET k = ? for every key k of user; the password '' is stored as
\* the empty text, which is not NULL
Assign(r, user) ==
  [id |-> IF "id" \in user.keys THEN user.id ELSE r.id,
   email |-> IF "email" \in user.keys THEN user.email ELSE r.email,
   password |-> IF "password" \in user.keys
                  THEN (IF user.password = <<>> THEN <<"">> ELSE user.password)
                  ELSE r.password,
   level |-> IF "level" \in user.keys THEN user.level ELSE r.level,
   active |-> IF "active" \in user.keys THEN Bind(user.active) ELSE r.active,
   readOnly |-> IF "readOnly" \in user.keys THEN Bind(user.readOnly) ELSE r.readOnly,
   blockPrivilege |->
     IF "blockPrivilege" \in user.keys THEN Bind(user.blockPrivilege) ELSE r.blockPrivilege,
   analyticsPrivilege |->
     IF "analyticsPrivilege" \in user.keys
       THEN Bind(user.analyticsPrivilege) ELSE r.analyticsPrivilege,
   manageAdminsPrivilege |->
     IF "manageAdminsPrivilege" \in user.keys
       THEN Bind(user.manageAdminsPrivilege) ELSE r.manageAdminsPrivilege,
   fetchMotivationsPrivilege |->
     IF "fetchMotivationsPrivilege" \in user.keys
       THEN Bind(user.fetchMotivationsPrivilege) ELSE r.fetchMotivationsPrivilege,
   passwordResetToken |->
     IF "passwordResetToken" \in user.keys
       THEN user.passwordResetToken ELSE r.passwordResetToken,
   passwordResetSentAt |->
     IF "passwordResetSentAt" \in user.keys
       THEN user.passwordResetSentAt ELSE r.passwordResetSentAt,
   dailyLimitConfig |->
     IF "dailyLimitConfig" \in user.keys
       THEN stringifyConfig(user.dailyLimitConfig) ELSE r.dailyLimitConfig,
   forms |-> IF "forms" \in user.keys THEN stringifyConfig(user.forms) ELSE r.forms]

\* PRIMARY KEY on id, UNIQUE on email (compared byte by byte)
Collides(row, others) == \E q \in others : q.id = row.id \/ q.email = row.email

Returned(op, target, user, err, res) ==
  [NoCall EXCEPT !.turn = 1 - adminCall.turn, !.op = op, !.target = target,
                 !.user = user, !.err = err, !.res = res]

\* addAdmin up to `await this._getAdmin(email, false)`
addAdmin(a, user) ==
  /\ adds[a].pc = "idle"
  /\ \A b \in 1..(a - 1) : adds[b].pc # "idle"
  /\ LET c == [adds[a] EXCEPT !.user = user]
     IN adds' = [adds EXCEPT ![a] =
          IF ~useDB
            THEN [c EXCEPT !.pc = "done", !.err = "AssertionError"]
          ELSE IF _getAdmin(user.email, FALSE) # {}
            THEN [c EXCEPT !.pc = "done", !.err = "ADMIN_ACCOUNT_EXISTS"]
            ELSE [c EXCEPT !.pc = "insert"]]
  /\ UNCHANGED <<useRedis, useDB, schema, admins, redis, mongoTokens, now, logins, checks,
                 adminOps, seq, adminCall,
                 limits, sets>>

\* addAdmin from the hash of the password to the INSERT: AUTOINCREMENT gives a
\* larger id than any the table has or had
addAdminInsert(a) ==
  /\ adds[a].pc = "insert"
  /\ LET user == adds[a].user
         hashedPassword ==
           IF user.password # <<>> THEN hash(user.password, HashSalt) ELSE <<>>
         lastID == Max({seq} \cup { r.id : r \in admins }) + 1
         row == Assign(NewRow(lastID, user.email, hashedPassword, user.level),
                       [user EXCEPT !.keys = @ \ {"email", "password", "level"}])
     IN IF Collides(row, admins)
          THEN /\ adds' = [adds EXCEPT ![a] =
                    [@ EXCEPT !.pc = "done", !.err = "SQLITE_CONSTRAINT"]]
               /\ UNCHANGED <<admins, seq>>
          ELSE /\ admins' = admins \cup {row}
               /\ seq' = lastID
               /\ adds' = [adds EXCEPT ![a] =
                    [@ EXCEPT !.pc = "done",
                              !.res = { [email |-> user.email, level |-> user.level,
                                         active |-> TRUE, id |-> lastID] }]]
  /\ UNCHANGED <<useRedis, useDB, schema, redis, mongoTokens, now, logins, checks, adminOps,
                 adminCall,
                 limits, sets>>

\* updateAdmin that looks its target up among the active rows only
updateAdminActiveOnly(email, user) ==
  /\ LET adm == _getAdmin(email, TRUE)
         row == Assign(Row(adm), user)
         err ==
           IF ~useDB THEN "AssertionError"
           ELSE IF "email" \in user.keys /\ user.email # ""
             THEN "Email cannot be updated"
           ELSE IF "password" \in user.keys /\ user.password # <<>>
             THEN "Use Change Password endpoint to update user password"
           ELSE IF "dailyLimitConfig" \in user.keys
                     /\ ~_validateDailyLimitConfig(user.dailyLimitConfig)
             THEN "AssertionError"
           ELSE IF adm = {} THEN "ADMIN_ACCOUNT_DOES_NOT_EXIST_OR_IS_NOT_ACTIVE"
           ELSE IF user.keys = {} THEN "SQLITE_ERROR"
           ELSE IF Collides(row, { r \in admins : r.id # Row(adm).id })
             THEN "SQLITE_CONSTRAINT"
           ELSE ""
     IN /\ admins' = IF err # "" THEN admins
                     ELSE { IF r.id = Row(adm).id THEN row ELSE r : r \in admins }
        /\ adminCall' = Returned("updateAdmin", Text(email), user, err,
                                 IF err = "" THEN {user} ELSE {})
  /\ adminOps' = adminOps + 1
  /\ UNCHANGED <<useRedis, useDB, schema, redis, mongoTokens, now, logins, checks, seq, adds,
                 limits, sets>>

updateAdmin(email, user) ==
  /\ LET active == "active" \in user.keys /\ user.active
         adm == _getAdmin(email, ~active)
         row == Assign(Row(adm), user)
         err ==
           IF ~useDB THEN "AssertionError"
           ELSE IF "email" \in user.keys /\ user.email # ""
             THEN "Email cannot be updated"
           ELSE IF "password" \in user.keys /\ user.password # <<>>
             THEN "Use Change Password endpoint to update user password"
           ELSE IF "dailyLimitConfig" \in user.keys
                     /\ ~_validateDailyLimitConfig(user.dailyLimitConfig)
             THEN "AssertionError"
           ELSE IF adm = {} THEN "ADMIN_ACCOUNT_DOES_NOT_EXIST_OR_IS_NOT_ACTIVE"
           ELSE IF user.keys = {} THEN "SQLITE_ERROR"
           ELSE IF Collides(row, { r \in admins : r.id # Row(adm).id })
             THEN "SQLITE_CONSTRAINT"
           ELSE ""
     IN /\ admins' = IF err # "" THEN admins
                     ELSE { IF r.id = Row(adm).id THEN row ELSE r : r \in admins }
        /\ adminCall' = Returned("updateAdmin", Text(email), user, err,
                                 IF err = "" THEN {user} ELSE {})
  /\ adminOps' = adminOps + 1
  /\ UNCHANGED <<useRedis, useDB, schema, redis, mongoTokens, now, logins, checks, seq, adds,
                 limits, sets>>

\* removeAdmin that clears the active flag of the rows it matches
removeAdminSoft(idOrEmail) ==
  /\ admins' = IF ~useDB THEN admins
               ELSE { IF \/ ToString(r.id) = idOrEmail.text
                         \/ toLowerCase(r.email) = toLowerCase(idOrEmail.text)
                        THEN [r EXCEPT !.active = 0] ELSE r : r \in admins }
  /\ adminCall' = Returned("removeAdmin", idOrEmail, NoFields,
                           IF useDB THEN "" ELSE "AssertionError", {})
  /\ adminOps' = adminOps + 1
  /\ UNCHANGED <<useRedis, useDB, schema, redis, mongoTokens, now, logins, checks, seq, adds,
                 limits, sets>>

\* removeAdmin without its assertion on conf.useDB
removeAdminUnasserted(idOrEmail) ==
  /\ admins' = { r \in admins :
                   ~ \/ ToString(r.id) = idOrEmail.text
                     \/ toLowerCase(r.email) = toLowerCase(idOrEmail.text) }
  /\ adminCall' = Returned("removeAdmin", idOrEmail, NoFields, "", {})
  /\ adminOps' = adminOps + 1
  /\ UNCHANGED <<useRedis, useDB, schema, redis, mongoTokens, now, logins, checks, seq, adds,
                 limits, sets>>

\* DELETE ... WHERE id = ? OR LOWER(email) = ?, bound to idOrEmail and to the lower
\* case of its text: the INTEGER column id equals a number and the text of its digits
removeAdmin(idOrEmail) ==
  /\ admins' = IF ~useDB THEN admins
               ELSE { r \in admins :
                        ~ \/ ToString(r.id) = idOrEmail.text
                          \/ toLowerCase(r.email) = toLowerCase(idOrEmail.text) }
  /\ adminCall' = Returned("removeAdmin", idOrEmail, NoFields,
                           IF useDB THEN "" ELSE "AssertionError", {})
  /\ adminOps' = adminOps + 1
  /\ UNCHANGED <<useRedis, useDB, schema, redis, mongoTokens, now, logins, checks, seq, adds,
                 limits, sets>>

\* UPDATE ... SET password = ? WHERE id = ?
SetPassword(id, password) ==
  { IF r.id = id THEN [r EXCEPT !.password = password] ELSE r : r \in admins }

\* verify(oldPassword, adm.password) splits the stored password: a NULL one has
\* no split and the call rejects with a TypeError
updateAdminPassword(email, newPassword, oldPassword) ==
  /\ LET adm == _getAdmin(email, TRUE)
         err ==
           IF ~useDB THEN "AssertionError"
           ELSE IF adm = {} THEN "ADMIN_ACCOUNT_DOES_NOT_EXIST_OR_IS_NOT_ACTIVE"
           ELSE IF Row(adm).password = <<>> THEN "TypeError"
           ELSE IF ~verify(oldPassword, Row(adm).password) THEN "INVALID_PASSWORD"
           ELSE ""
     IN /\ admins' = IF err # "" THEN admins
                     ELSE SetPassword(Row(adm).id, hash(newPassword, HashSalt))
        /\ adminCall' =
             [Returned("updateAdminPassword", Text(email),
                       [NoFields EXCEPT !.password = newPassword], err,
                       IF err = "" THEN {TRUE} ELSE {})
                EXCEPT !.oldPassword = oldPassword]
  /\ adminOps' = adminOps + 1
  /\ UNCHANGED <<useRedis, useDB, schema, redis, mongoTokens, now, logins, checks, seq, adds,
                 limits, sets>>

\* new Date(null) is 1970-01-01: on the clock of the model, which starts when the
\* facility is constructed, a time further back than any reset window
UnixEpoch == 0 - 20 * 24 * HourMs

\* new Date(admin.passwordResetSentAt), in milliseconds
DateOf(passwordResetSentAt) ==
  IF passwordResetSentAt = NULL THEN UnixEpoch ELSE passwordResetSentAt

\* expiryDate.setDate(expiryDate.getDate() + 1) moves the date to the same local
\* time of the next calendar day, `day` milliseconds later in the time zone of
\* the process
resetAdminPassword(email, newPassword, passwordResetToken, day) ==
  /\ LET admin == _getAdmin(email, TRUE)
         expiryDate == DateOf(Row(admin).passwordResetSentAt) + day
         err ==
           IF ~useDB THEN "AssertionError"
           ELSE IF admin = {} THEN "ADMIN_ACCOUNT_DOES_NOT_EXIST_OR_IS_NOT_ACTIVE"
           ELSE IF Row(admin).passwordResetToken # passwordResetToken
             THEN "INVALID_passwordResetToken"
           ELSE IF now > expiryDate THEN "RESET_LINK_EXPIRED"
           ELSE ""
     IN /\ admins' = IF err # "" THEN admins
                     ELSE SetPassword(Row(admin).id, hash(newPassword, HashSalt))
        /\ adminCall' =
             [Returned("resetAdminPassword", Text(email),
                       [NoFields EXCEPT !.password = newPassword], err,
                       IF err = "" THEN {TRUE} ELSE {})
                EXCEPT !.passwordResetToken = passwordResetToken, !.at = now]
  /\ adminOps' = adminOps + 1
  /\ UNCHANGED <<useRedis, useDB, schema, redis, mongoTokens, now, logins, checks, seq, adds,
                 limits, sets>>

---------------------------------------------------------------------------
(* The start of the facility on its database file *)

\* _start of a process that carries the given text of migrations.js: in
\* config-only mode `return cb()`, else the series that opens the file, runs
\* runSqlAtStart, the migrations and _saveAdminsFromConfig
_start(list) ==
  /\ schema.pc = "started"
  /\ schema' = IF ~useDB THEN [schema EXCEPT !.runs = @ + 1]
               ELSE [schema EXCEPT !.pc = "sql", !.list = list, !.runs = @ + 1]
  /\ UNCHANGED <<useRedis, useDB, admins, redis, mongoTokens, now, logins, checks,
                 adminOps, seq, adds, adminCall, limits, sets>>

\* super._start: the statements of opts.runSqlAtStart
_startRunSql ==
  /\ schema.pc = "sql"
  /\ schema' = [schema EXCEPT !.pc = "migrate", !.next = 1, !.db = runSqlAtStart(@)]
  /\ UNCHANGED <<useRedis, useDB, admins, redis, mongoTokens, now, logins, checks,
                 adminOps, seq, adds, adminCall, limits, sets>>

\* this.runMigrations(migrations, cb): the next migration of the list; after the
\* last one _saveAdminsFromConfig, which returns at once when admin_users has rows
runMigrations ==
  /\ schema.pc = "migrate"
  /\ LET db == Migrate(schema.db, migrations(schema.list)[schema.next])
         last == schema.next = Len(migrations(schema.list))
     IN schema' =
          IF db.err # "" THEN [schema EXCEPT !.pc = "failed", !.db = db]
          ELSE IF ~last THEN [schema EXCEPT !.next = @ + 1, !.db = db]
          ELSE [schema EXCEPT !.pc = "started", !.next = 0, !.db = db,
                              !.ran = @ \cup {schema.list}]
  /\ admins' = IF admins = {} /\ schema'.pc = "started"
                 THEN _saveAdminsFromConfig ELSE admins
  /\ UNCHANGED <<useRedis, useDB, redis, mongoTokens, now, logins, checks,
                 adminOps, seq, adds, adminCall, limits, sets>>

---------------------------------------------------------------------------
(* Level-wide daily limits *)

\* the operations on table admin_level_daily_limits, with the constraints that
\* migrations.js:63-79 gives it when it creates the table under that name

\* _validateAdminLevel: the error it throws, if any
_validateAdminLevel(level) ==
  IF level.t = "int" /\ level.n >= MIN_ADMIN_LEVEL /\ level.n < MAX_ADMIN_LEVEL + 1
    THEN NoError
    ELSE Failure("UserError", "as admin level is invalid", Quoted(level))

\* _validateDailyLimitCategory: the error it throws, if any
_validateDailyLimitCategory(category) ==
  IF category \in VALID_DAILY_LIMIT_CATEGORIES
    THEN NoError
    ELSE Failure("UserError", "as daily limit category value is invalid", category)

\* SELECT alert, block ... WHERE level = ? AND category = ? LIMIT 1
getAdminLevelDailyLimit(level, category) ==
  { [alert |-> r.alert, block |-> r.block] :
      r \in { q \in limits : q.level = level /\ q.category = category } }

\* the checks of config, in the order of the code
ConfigError(existingLevelDailyLimit, alert, block) ==
  IF isNil(alert) /\ isNil(block)
    THEN Failure("UserError", "Neither alert nor block values are provided", "")
  ELSE IF existingLevelDailyLimit = {} /\ (isNil(alert) \/ isNil(block))
    THEN Failure("UserError",
           "When creating an admin level daily limit both alert and block must be provided",
           "")
  ELSE IF ~isNil(alert) /\ ~NonNegativeInteger(alert)
    THEN Failure("UserError",
           "When alert value is provided, must be integer and greater or equal to zero", "")
  ELSE IF ~isNil(block) /\ ~NonNegativeInteger(block)
    THEN Failure("UserError",
           "When block value is provided, must be integer and greater or equal to zero", "")
  ELSE NoError

\* setAdminLevelDailyLimit without the validation of level and category
setAdminLevelDailyLimitUnvalidated(c, level, category, alert, block) ==
  /\ sets[c].pc = "idle"
  /\ \A b \in 1..(c - 1) : sets[b].pc # "idle"
  /\ LET existing == getAdminLevelDailyLimit(level, category)
         call == [sets[c] EXCEPT !.level = level, !.category = category,
                                 !.alert = alert, !.block = block]
         err == IF ~useDB THEN Failure("TypeError", "", "")
                ELSE ConfigError(existing, alert, block)
     IN sets' = [sets EXCEPT ![c] =
          IF err # NoError
            THEN [call EXCEPT !.pc = "done", !.err = err]
            ELSE [call EXCEPT !.pc = "write", !.existingLevelDailyLimit = existing]]
  /\ UNCHANGED <<useRedis, useDB, schema, admins, redis, mongoTokens, now, logins, checks,
                 adminOps, seq, adds, adminCall, limits>>

\* setAdminLevelDailyLimit up to the submission of its write: the validation of
\* level and category, `await this.getAdminLevelDailyLimit(level, category)`, which
\* has no database to read in config-only mode, and the checks of config
setAdminLevelDailyLimit(c, level, category, alert, block) ==
  /\ sets[c].pc = "idle"
  /\ \A b \in 1..(c - 1) : sets[b].pc # "idle"
  /\ LET existing == getAdminLevelDailyLimit(level, category)
         call == [sets[c] EXCEPT !.level = level, !.category = category,
                                 !.alert = alert, !.block = block]
         err == IF _validateAdminLevel(level) # NoError THEN _validateAdminLevel(level)
                ELSE IF _validateDailyLimitCategory(category) # NoError
                  THEN _validateDailyLimitCategory(category)
                ELSE IF ~useDB THEN Failure("TypeError", "", "")
                ELSE ConfigError(existing, alert, block)
     IN sets' = [sets EXCEPT ![c] =
          IF err # NoError
            THEN [call EXCEPT !.pc = "done", !.err = err]
            ELSE [call EXCEPT !.pc = "write", !.existingLevelDailyLimit = existing]]
  /\ UNCHANGED <<useRedis, useDB, schema, admins, redis, mongoTokens, now, logins, checks,
                 adminOps, seq, adds, adminCall, limits>>

\* the write of setAdminLevelDailyLimit that sets both columns of the row
setAdminLevelDailyLimitWriteBoth(c) ==
  /\ sets[c].pc = "write"
  /\ LET call == sets[c]
         key(r) == r.level = call.level /\ r.category = call.category
         row == [level |-> call.level, category |-> call.category,
                 alert |-> call.alert, block |-> call.block]
     IN IF call.existingLevelDailyLimit # {}
          THEN /\ limits' = { IF key(r) THEN row ELSE r : r \in limits }
               /\ sets' = [sets EXCEPT ![c] = [@ EXCEPT !.pc = "done", !.res = {TRUE}]]
          ELSE IF \E r \in limits : key(r)
            THEN /\ sets' = [sets EXCEPT ![c] =
                      [@ EXCEPT !.pc = "done",
                                !.err = Failure("SQLITE_CONSTRAINT", "", "")]]
                 /\ UNCHANGED limits
            ELSE /\ limits' = limits \cup {row}
                 /\ sets' = [sets EXCEPT ![c] = [@ EXCEPT !.pc = "done", !.res = {TRUE}]]
  /\ UNCHANGED <<useRedis, useDB, schema, admins, redis, mongoTokens, now, logins, checks,
                 adminOps, seq, adds, adminCall>>

\* the write of setAdminLevelDailyLimit whose callback drops the error of the INSERT
setAdminLevelDailyLimitWriteSwallowed(c) ==
  /\ sets[c].pc = "write"
  /\ LET call == sets[c]
         key(r) == r.level = call.level /\ r.category = call.category
         valuesToUpdate(r) ==
           [r EXCEPT !.alert = IF isNil(call.alert) THEN @ ELSE call.alert,
                     !.block = IF isNil(call.block) THEN @ ELSE call.block]
         row == [level |-> call.level, category |-> call.category,
                 alert |-> call.alert, block |-> call.block]
     IN /\ limits' =
             IF call.existingLevelDailyLimit # {}
               THEN { IF key(r) THEN valuesToUpdate(r) ELSE r : r \in limits }
             ELSE IF \E r \in limits : key(r) THEN limits
             ELSE limits \cup {row}
        /\ sets' = [sets EXCEPT ![c] = [@ EXCEPT !.pc = "done", !.res = {TRUE}]]
  /\ UNCHANGED <<useRedis, useDB, schema, admins, redis, mongoTokens, now, logins, checks,
                 adminOps, seq, adds, adminCall>>

\* the write the call submitted, when the database executes it: an UPDATE of the
\* columns given if the read found a row (of no row, if it is gone), else an INSERT,
\* which the primary key (level, category) rejects if a row is there by then
setAdminLevelDailyLimitWrite(c) ==
  /\ sets[c].pc = "write"
  /\ LET call == sets[c]
         key(r) == r.level = call.level /\ r.category = call.category
         valuesToUpdate(r) ==
           [r EXCEPT !.alert = IF isNil(call.alert) THEN @ ELSE call.alert,
                     !.block = IF isNil(call.block) THEN @ ELSE call.block]
         row == [level |-> call.level, category |-> call.category,
                 alert |-> call.alert, block |-> call.block]
     IN IF call.existingLevelDailyLimit # {}
          THEN /\ limits' = { IF key(r) THEN valuesToUpdate(r) ELSE r : r \in limits }
               /\ sets' = [sets EXCEPT ![c] = [@ EXCEPT !.pc = "done", !.res = {TRUE}]]
          ELSE IF \E r \in limits : key(r)
            THEN /\ sets' = [sets EXCEPT ![c] =
                      [@ EXCEPT !.pc = "done",
                                !.err = Failure("SQLITE_CONSTRAINT", "", "")]]
                 /\ UNCHANGED limits
            ELSE /\ limits' = limits \cup {row}
                 /\ sets' = [sets EXCEPT ![c] = [@ EXCEPT !.pc = "done", !.res = {TRUE}]]
  /\ UNCHANGED <<useRedis, useDB, schema, admins, redis, mongoTokens, now, logins, checks,
                 adminOps, seq, adds, adminCall>>

\* DELETE FROM admin_level_daily_limits WHERE level = ?
\* removeAdminLevelDailyLimits whose DELETE has no WHERE clause
removeAdminLevelDailyLimitsEvery(level) ==
  /\ LET err == IF _validateAdminLevel(level) # NoError THEN _validateAdminLevel(level)
                ELSE IF ~useDB THEN Failure("TypeError", "", "")
                ELSE NoError
     IN /\ limits' = IF err # NoError THEN limits ELSE {}
        /\ adminCall' =
             [NoCall EXCEPT !.turn = 1 - adminCall.turn,
                            !.op = "removeAdminLevelDailyLimits",
                            !.level = level.n, !.err = err.name,
                            !.res = IF err = NoError THEN {TRUE} ELSE {}]
  /\ adminOps' = adminOps + 1
  /\ UNCHANGED <<useRedis, useDB, schema, admins, redis, mongoTokens, now, logins, checks,
                 seq, adds, sets>>

removeAdminLevelDailyLimits(level) ==
  /\ LET err == IF _validateAdminLevel(level) # NoError THEN _validateAdminLevel(level)
                ELSE IF ~useDB THEN Failure("TypeError", "", "")
                ELSE NoError
     IN /\ limits' = IF err # NoError THEN limits
                     ELSE { r \in limits : r.level # level }
        /\ adminCall' =
             [NoCall EXCEPT !.turn = 1 - adminCall.turn,
                            !.op = "removeAdminLevelDailyLimits",
                            !.level = level.n, !.err = err.name,
                            !.res = IF err = NoError THEN {TRUE} ELSE {}]
  /\ adminOps' = adminOps + 1
  /\ UNCHANGED <<useRedis, useDB, schema, admins, redis, mongoTokens, now, logins, checks,
                 seq, adds, sets>>

---------------------------------------------------------------------------
(* Read-only operations on the admin directory, as calls that return *)

Asked(op, email, active, level, out) ==
  /\ adminCall' = [NoCall EXCEPT !.turn = 1 - adminCall.turn, !.op = op,
                                 !.target = email, !.active = active, !.level = level,
                                 !.err = out.err, !.res = out.res]
  /\ UNCHANGED <<useRedis, useDB, schema, admins, redis, mongoTokens, now, logins, checks,
                 adminOps, seq, adds,
                 limits, sets>>

AskGetAdmin(email, active) ==
  Asked("getAdmin", email, active, 0, getAdmin(email, active))

AskAccessLevel(adminEmail, level) ==
  Asked("checkAdmAccessLevel", Text(adminEmail), TRUE, level,
        [err |-> "", res |-> {checkAdmAccessLevel(adminEmail, level)}])

AskPrivilege(op, adminEmail) ==
  Asked(op, Text(adminEmail), TRUE, 0,
        CASE op = "checkAdmIsReadOnly" -> checkAdmIsReadOnly(adminEmail)
          [] op = "checkAdmHasBlockPrivilege" -> checkAdmHasBlockPrivilege(adminEmail)
          [] op = "checkAdmHasAnalyticsPrivilege" -> checkAdmHasAnalyticsPrivilege(adminEmail)
          [] op = "checkAdmHasManageAdminsPrivilege"
               -> checkAdmHasManageAdminsPrivilege(adminEmail)
          [] op = "checkAdmHasFetchMotivationsPrivilege"
               -> checkAdmHasFetchMotivationsPrivilege(adminEmail))

\* getDailyLimitsByAdminLevel: the rows of the level as one object keyed by
\* category, null when there is none
getDailyLimitsByAdminLevel(level) ==
  IF _validateAdminLevel(level) # NoError
    THEN [err |-> _validateAdminLevel(level).message, res |-> {}]
  ELSE IF ~useDB THEN [err |-> "TypeError", res |-> {}]
  ELSE LET rows == { r \in limits : r.level = level }
       IN [err |-> "",
           res |-> IF rows = {} THEN {}
                   ELSE { { [category |-> r.category, alert |-> r.alert,
                             block |-> r.block] : r \in rows } }]

\* getAdminUserDailyLimitConfig: `if (!admin) return null; if (val) return val`,
\* and any object is truthy
getAdminUserDailyLimitConfig(adminUserEmail) ==
  LET admin == getAdmin(Text(adminUserEmail), TRUE).res
      val == IF admin = {} \/ "dailyLimitConfig" \notin DOMAIN Row(admin) THEN {}
             ELSE Row(admin).dailyLimitConfig
  IN IF admin = {} THEN [err |-> "", res |-> {}]
     ELSE IF val # {} THEN [err |-> "", res |-> val]
     ELSE getDailyLimitsByAdminLevel(Integer(Row(admin).level))

\* the call record holds the object returned as the one field of a record
AskDailyLimitConfig(adminUserEmail) ==
  Asked("getAdminUserDailyLimitConfig", Text(adminUserEmail), TRUE, 0,
        [getAdminUserDailyLimitConfig(adminUserEmail) EXCEPT
           !.res = { [object |-> m] : m \in @ }])

\* removeAdminUserDailyLimitConfig that stores the object without keys
removeAdminUserDailyLimitConfigEmptied(adminUserEmail) ==
  /\ LET adm == _getAdmin(adminUserEmail, TRUE)
         err == IF adm = {} THEN "ADMIN_ACCOUNT_DOES_NOT_EXIST_OR_IS_NOT_ACTIVE"
                ELSE IF ~useDB THEN "TypeError"
                ELSE ""
     IN /\ admins' = IF err # "" THEN admins
                     ELSE { IF r.id = Row(adm).id
                              THEN [r EXCEPT !.dailyLimitConfig = stringifyConfig({{}})]
                            ELSE r : r \in admins }
        /\ adminCall' = Returned("removeAdminUserDailyLimitConfig", Text(adminUserEmail),
                                 NoFields, err, IF err = "" THEN {TRUE} ELSE {})
  /\ adminOps' = adminOps + 1
  /\ UNCHANGED <<useRedis, useDB, schema, redis, mongoTokens, now, logins, checks, seq, adds,
                 limits, sets>>

removeAdminUserDailyLimitConfig(adminUserEmail) ==
  /\ LET adm == _getAdmin(adminUserEmail, TRUE)
         err == IF adm = {} THEN "ADMIN_ACCOUNT_DOES_NOT_EXIST_OR_IS_NOT_ACTIVE"
                ELSE IF ~useDB THEN "TypeError"
                ELSE ""
     IN /\ admins' = IF err # "" THEN admins
                     ELSE { IF r.id = Row(adm).id THEN [r EXCEPT !.dailyLimitConfig = {}]
                            ELSE r : r \in admins }
        /\ adminCall' = Returned("removeAdminUserDailyLimitConfig", Text(adminUserEmail),
                                 NoFields, err, IF err = "" THEN {TRUE} ELSE {})
  /\ adminOps' = adminOps + 1
  /\ UNCHANGED <<useRedis, useDB, schema, redis, mongoTokens, now, logins, checks, seq, adds,
                 limits, sets>>

Tick ==
  /\ now < MaxTicks * TickMs
  /\ now' = now + TickMs
  /\ UNCHANGED <<useRedis, useDB, schema, admins, redis, mongoTokens, logins, checks, adminOps,
                 seq, adds, adminCall,
                 limits, sets>>

\* time passing while no call runs
Elapse(ms) ==
  /\ now + ms <= MaxClockHours * HourMs
  /\ now' = now + ms
  /\ UNCHANGED <<useRedis, useDB, schema, admins, redis, mongoTokens, logins, checks, adminOps,
                 seq, adds, adminCall, limits, sets>>

---------------------------------------------------------------------------
(* Inputs the environment offers *)

LoginIds == 1..MaxLogins
CheckIds == 1..MaxChecks
Jitter == 0..MaxJitterMs

Partials ==
  { [NoFields EXCEPT !.keys = {"level"}, !.level = 3] } \cup
  { [NoFields EXCEPT !.keys = {"active"}, !.active = b] : b \in BOOLEAN }

\* tokens a client may present: the issued ones, an issued one with a piece of an
\* ip appended, a guess that was never issued, and one without the marker
IssuedTokens == { logins[i].token : i \in { j \in LoginIds : logins[j].token # <<>> } }
PresentedTokens ==
  IssuedTokens \cup { t \o <<":", "f">> : t \in IssuedTokens }
    \cup { ADM \o <<"-", "0">>, <<"x">> }
AuthTokens ==
  { <<t, [ip |-> j]>> : t \in PresentedTokens, j \in Ips } \cup { <<>> }
RequiredLevels == {0, 1}

---------------------------------------------------------------------------
(* Token lifecycle: successful logins, validations, time, admin changes *)

SessionIds == 1..MaxSessions

TokenUsers ==
  { u \in CompleteUsers : u.username = "a@x" /\ u.password = <<"p1">> }
TokenGoogles == { g \in CompleteGoogles : g.keys = CredentialKeys }
TokenAnswers == { a \in ProviderAnswers : a.email = "A@x" }

Next ==
  \/ \E i \in SessionIds, u \in TokenUsers, ip \in Ips : loginAdmin(i, u, NoGoogle, ip)
  \/ \E i \in SessionIds, g \in TokenGoogles, ip \in Ips : loginAdmin(i, NoUser, g, ip)
  \/ \E i \in SessionIds : _loginAdminPass(i)
  \/ \E i \in SessionIds, a \in TokenAnswers : _loginAdminGoogle(i, a)
  \/ \E i \in SessionIds : _validAdminUserGoogleEmail(i)
  \/ \E i \in SessionIds, e \in Jitter : _createAdminToken(i, e, TRUE)
  \/ \E v \in CheckIds, t \in AuthTokens, n \in RequiredLevels : checkAdminRedis(v, t, n)
  \/ \E v \in CheckIds : checkAdminRedisAccess(v)
  \/ \E v \in CheckIds : checkAdminRedisDbError(v)
  \/ adminOps < MaxAdminOps /\ \E p \in Partials : updateAdmin("A@x", p)
  \/ adminOps < MaxAdminOps /\ removeAdmin(Text("a@x"))
  \/ Tick

Spec == Init /\ [][Next]_vars

---------------------------------------------------------------------------
(* Validation against a changing directory: the holder of an issued token *)
(* presents it from the ip it was issued to, while admins are changed     *)

HolderTokens ==
  { <<logins[i].token, [ip |-> logins[i].ip]>> :
      i \in { j \in SessionIds : logins[j].token # <<>> } }

NextRecheck ==
  \/ \E i \in SessionIds, u \in TokenUsers, ip \in Ips : loginAdmin(i, u, NoGoogle, ip)
  \/ \E i \in SessionIds : _loginAdminPass(i)
  \/ \E i \in SessionIds : _createAdminToken(i, 0, TRUE)
  \/ \E v \in CheckIds, t \in HolderTokens, n \in RequiredLevels : checkAdminRedis(v, t, n)
  \/ \E v \in CheckIds : checkAdminRedisAccess(v)
  \/ \E v \in CheckIds : checkAdminRedisDbError(v)
  \/ adminOps < MaxAdminOps /\ \E p \in Partials : updateAdmin("A@x", p)
  \/ adminOps < MaxAdminOps /\ removeAdmin(Text("a@x"))

SpecRecheck == Init /\ [][NextRecheck]_vars

---------------------------------------------------------------------------
(* Login attempts: every credential form, every failure of a collaborator *)

LoginIp == <<"1">>

LoginArgs ==
  { <<NoUser, NoGoogle>> }
    \cup { <<u, NoGoogle>> : u \in PartialUsers \cup CompleteUsers }
    \cup { <<NoUser, g>> : g \in PartialGoogles \cup CompleteGoogles }
    \cup { <<u, g>> : u \in PartialUsers \cup TokenUsers,
                      g \in PartialGoogles \cup TokenGoogles }

\* the update that makes a login fail on an inactive account
Deactivations == { p \in Partials : "active" \in p.keys /\ ~p.active }

NextLogin ==
  \/ \E i \in LoginIds, a \in LoginArgs : loginAdmin(i, a[1], a[2], LoginIp)
  \/ \E i \in LoginIds : _loginAdminPass(i)
  \/ \E i \in LoginIds : _loginAdminPassDbError(i)
  \/ \E i \in LoginIds, a \in ProviderAnswers : _loginAdminGoogle(i, a)
  \/ \E i \in LoginIds : _validAdminUserGoogleEmail(i)
  \/ \E i \in LoginIds : _validAdminUserGoogleEmailDbError(i)
  \/ \E i \in LoginIds, ok \in BOOLEAN : _createAdminToken(i, 0, ok)
  \/ adminOps < MaxAdminOps /\ \E p \in Deactivations : updateAdmin("A@x", p)

SpecLogin == Init /\ [][NextLogin]_vars

---------------------------------------------------------------------------
(* The admin table under concurrent requests: addAdmin calls that interleave *)
(* between lookup and INSERT, updates with every kind of partial, removals   *)

MaxDirectoryOps == 2
AddIds == 1..MaxAdds

\* an existing email in another case, two spellings of a new one, the empty
\* string, a level outside 0..4
AddUsers ==
  { [NoFields EXCEPT !.keys = {"email", "level"}, !.email = "a@x", !.level = 2],
    [NoFields EXCEPT !.keys = {"email", "password", "level"}, !.email = "B@x",
                     !.password = <<"p1">>, !.level = 1],
    [NoFields EXCEPT !.keys = {"email", "level", "manageAdminsPrivilege"},
                     !.email = "b@x", !.level = 0, !.manageAdminsPrivilege = TRUE],
    [NoFields EXCEPT !.keys = {"email", "level"}, !.email = "", !.level = 1],
    [NoFields EXCEPT !.keys = {"email", "level"}, !.email = "c@x", !.level = 7] }

\* partials with an email, a password, an id, a level outside 0..4, a privilege
AdminPartials ==
  Partials \cup
  { [NoFields EXCEPT !.keys = {"email"}, !.email = e] : e \in {"", "n@x"} } \cup
  { [NoFields EXCEPT !.keys = {"password"}, !.password = w] : w \in {<<>>, <<"p2">>} } \cup
  { [NoFields EXCEPT !.keys = {"id"}, !.id = 9],
    [NoFields EXCEPT !.keys = {"level"}, !.level = 7],
    [NoFields EXCEPT !.keys = {"blockPrivilege"}, !.blockPrivilege = TRUE] }

UpdateTargets == {"A@x", "b@x", "z@x"}
RemoveTargets == {Text("a@x"), ById(2)}

NextAdmins ==
  \/ \E a \in AddIds, u \in AddUsers : addAdmin(a, u)
  \/ \E a \in AddIds : addAdminInsert(a)
  \/ adminOps < MaxDirectoryOps
       /\ \E e \in UpdateTargets, p \in AdminPartials : updateAdmin(e, p)
  \/ adminOps < MaxDirectoryOps /\ \E t \in RemoveTargets : removeAdmin(t)

SpecAdmins == Init /\ [][NextAdmins]_vars

---------------------------------------------------------------------------
(* Lookups and privilege checks against a directory that is being changed *)

PrivilegeChecks ==
  { "checkAdmIsReadOnly", "checkAdmHasBlockPrivilege", "checkAdmHasAnalyticsPrivilege",
    "checkAdmHasManageAdminsPrivilege", "checkAdmHasFetchMotivationsPrivilege" }

QueryEmails == {"a@x", "G@x", "z@x", ""}
QueryLevels == {0, 1, MAX_ADMIN_LEVEL}
QueryIds == {0, 1}

QueryPartials ==
  Partials \cup
  { [NoFields EXCEPT !.keys = {"readOnly", "analyticsPrivilege"},
                     !.readOnly = TRUE, !.analyticsPrivilege = TRUE],
    [NoFields EXCEPT !.keys = {"manageAdminsPrivilege", "blockPrivilege"},
                     !.manageAdminsPrivilege = TRUE, !.blockPrivilege = TRUE],
    [NoFields EXCEPT !.keys = {"fetchMotivationsPrivilege", "level"},
                     !.fetchMotivationsPrivilege = TRUE, !.level = 2] }

NextQueries ==
  \/ adminOps < MaxAdminOps
       /\ \E e \in {"A@x", "g@x"}, p \in QueryPartials : updateAdmin(e, p)
  \/ adminOps < MaxAdminOps /\ removeAdmin(Text("a@x"))
  \/ \E e \in QueryEmails, b \in BOOLEAN : AskGetAdmin(Text(e), b)
  \/ \E n \in QueryIds, b \in BOOLEAN : AskGetAdmin(ById(n), b)
  \/ \E e \in QueryEmails, n \in QueryLevels : AskAccessLevel(e, n)
  \/ \E op \in PrivilegeChecks, e \in QueryEmails : AskPrivilege(op, e)

SpecQueries == Init /\ [][NextQueries]_vars

---------------------------------------------------------------------------
(* Deactivation and reactivation of an admin, with password logins around it *)

ReactivatePartials ==
  Partials \cup
  { [NoFields EXCEPT !.keys = {"readOnly"}, !.readOnly = TRUE] }

NextReactivate ==
  \/ adminOps < MaxDirectoryOps
       /\ \E e \in {"A@x", "z@x"}, p \in ReactivatePartials : updateAdmin(e, p)
  \/ \E i \in LoginIds, u \in TokenUsers : loginAdmin(i, u, NoGoogle, LoginIp)
  \/ \E i \in LoginIds : _loginAdminPass(i)
  \/ \E i \in LoginIds : _createAdminToken(i, 0, TRUE)
  \/ \E b \in BOOLEAN : AskGetAdmin(Text("a@x"), b)

SpecReactivate == Init /\ [][NextReactivate]_vars

---------------------------------------------------------------------------
(* Removal of admins by id and by email, and adding them again *)

RemovedTargets ==
  { Text("a@x"), Text("G@x"), Text("z@x"), Text("2"), Text(""), ById(1), ById(7) }

ReAddUsers ==
  { [NoFields EXCEPT !.keys = {"email", "password", "level"}, !.email = e,
                     !.password = <<"p2">>, !.level = 2] : e \in {"a@x", "g@x"} }

NextRemove ==
  \/ adminOps < MaxDirectoryOps /\ \E t \in RemovedTargets : removeAdmin(t)
  \/ adminOps < MaxDirectoryOps /\ \E p \in Deactivations : updateAdmin("A@x", p)
  \/ \E a \in AddIds, u \in ReAddUsers : addAdmin(a, u)
  \/ \E a \in AddIds : addAdminInsert(a)

SpecRemove == Init /\ [][NextRemove]_vars

---------------------------------------------------------------------------
(* Admins added with a password, and password logins with their credentials *)

\* two spellings of one email with different passwords, and the empty email
PasswordAdds ==
  { [NoFields EXCEPT !.keys = {"email", "password", "level"}, !.email = c[1],
                     !.password = c[2], !.level = 1] :
      c \in { <<"B@x", <<"p1">>>>, <<"b@x", <<"p2">>>>, <<"", <<"p1">>>> } }

AddedLogins ==
  { [present |-> TRUE, keys |-> UserKeys, username |-> e, password |-> w] :
      e \in {"B@x", "b@x", ""}, w \in { <<"p1">>, <<"p2">> } }

NextAddLogin ==
  \/ \E a \in AddIds, u \in PasswordAdds : addAdmin(a, u)
  \/ \E a \in AddIds : addAdminInsert(a)
  \/ \E i \in LoginIds, u \in AddedLogins : loginAdmin(i, u, NoGoogle, LoginIp)
  \/ \E i \in LoginIds : _loginAdminPass(i)
  \/ \E i \in LoginIds : _createAdminToken(i, 0, TRUE)

SpecAddLogin == Init /\ [][NextAddLogin]_vars

---------------------------------------------------------------------------
(* Password changes, with password logins before and after *)

ChangeEmails == {"a@x", "G@x", "z@x"}
OldPasswords == { <<"p1">>, <<"p2">>, <<>> }
NewPasswords == { <<"p2">> }

\* a deactivation, and a partial that stores the empty text as password
ChangePartials ==
  Deactivations \cup { [NoFields EXCEPT !.keys = {"password"}] }

ChangeLogins ==
  { [present |-> TRUE, keys |-> UserKeys, username |-> "A@x", password |-> w] :
      w \in { <<"p1">>, <<"p2">> } }

NextChangePassword ==
  \/ adminOps < MaxDirectoryOps
       /\ \E e \in ChangeEmails, n \in NewPasswords, o \in OldPasswords :
            updateAdminPassword(e, n, o)
  \/ adminOps < MaxDirectoryOps /\ \E p \in ChangePartials : updateAdmin("A@x", p)
  \/ \E i \in LoginIds, u \in ChangeLogins : loginAdmin(i, u, NoGoogle, LoginIp)
  \/ \E i \in LoginIds : _loginAdminPass(i)
  \/ \E i \in LoginIds : _createAdminToken(i, 0, TRUE)

SpecChangePassword == Init /\ [][NextChangePassword]_vars

---------------------------------------------------------------------------
(* Password resets: a reset is recorded on the row, time passes, the link is used *)

\* the caller's passwordResetToken argument: two texts, null, and undefined
Undefined == <<"undefined">>
ResetTokens == { <<"t">>, <<"u">>, <<>>, Undefined }

\* the length of the calendar day that setDate(getDate() + 1) adds: 24 hours, or
\* 23 or 25 when a daylight-saving change of the process's time zone falls in it
LocalDays == { 23 * HourMs, 24 * HourMs, 25 * HourMs }

Waits == { HourMs, 23 * HourMs + HourMs \div 2 }

\* what the reset-request flow of the caller writes with updateAdmin
ResetRequests ==
  { [NoFields EXCEPT !.keys = {"passwordResetToken", "passwordResetSentAt"},
                     !.passwordResetToken = <<"t">>, !.passwordResetSentAt = now] }

NextReset ==
  \/ adminOps < MaxDirectoryOps /\ \E p \in ResetRequests : updateAdmin("A@x", p)
  \/ adminOps < MaxDirectoryOps
       /\ \E e \in {"a@x", "G@x", "z@x"}, t \in ResetTokens, d \in LocalDays :
            resetAdminPassword(e, <<"p2">>, t, d)
  \/ \E ms \in Waits : Elapse(ms)

SpecReset == Init /\ [][NextReset]_vars

---------------------------------------------------------------------------
(* A reset link used again: one request, then resets that present its token *)

MaxResets == 3

NextResetTwice ==
  \/ adminOps < MaxResets /\ \E p \in ResetRequests : updateAdmin("A@x", p)
  \/ adminOps < MaxResets
       /\ \E n \in { <<"p2">>, <<"p3">> }, t \in { <<"t">>, <<"u">> } :
            resetAdminPassword("a@x", n, t, 24 * HourMs)
  \/ \E ms \in Waits : Elapse(ms)

SpecResetTwice == Init /\ [][NextResetTwice]_vars

---------------------------------------------------------------------------
(* Restarts of the facility on the file it has started on *)

MaxRestarts == 3

NextStart ==
  \/ schema.runs < MaxRestarts /\ \E list \in {1, 2} : _start(list)
  \/ _startRunSql
  \/ runMigrations

SpecStart == Init /\ [][NextStart]_vars

---------------------------------------------------------------------------
(* The mutation operations in both directory modes *)

MutationOps ==
  { "updateAdmin", "removeAdmin", "updateAdminPassword", "resetAdminPassword" }

MutationAdds ==
  { [NoFields EXCEPT !.keys = {"email", "password", "level"}, !.email = e,
                     !.password = <<"p2">>, !.level = 2] : e \in {"a@x", "n@x"} }

NextMutations ==
  \/ \E a \in AddIds, u \in MutationAdds : addAdmin(a, u)
  \/ \E a \in AddIds : addAdminInsert(a)
  \/ adminOps < MaxDirectoryOps
       /\ \E e \in {"A@x", "z@x"}, p \in Partials : updateAdmin(e, p)
  \/ adminOps < MaxDirectoryOps
       /\ \E t \in {Text("a@x"), ById(2)} : removeAdmin(t)
  \/ adminOps < MaxDirectoryOps
       /\ \E o \in OldPasswords : updateAdminPassword("a@x", <<"p2">>, o)
  \/ adminOps < MaxDirectoryOps
       /\ \E t \in {<<>>, <<"t">>} : resetAdminPassword("a@x", <<"p2">>, t, 24 * HourMs)
  \/ \E e \in {"a@x", "n@x"} : AskGetAdmin(Text(e), TRUE)

SpecMutations == Init /\ [][NextMutations]_vars

---------------------------------------------------------------------------
(* Level-wide daily limits being created, updated and removed *)

SetIds == 1..MaxSets

\* <<level, category, alert, block>>: creations and updates with both values, with
\* one and with none, and one argument of each kind that the validations refuse
SetArgs ==
  { <<Integer(0), "opened", Integer(0), Integer(0)>>,
    <<Integer(0), "opened", Integer(10), Nil>>,
    <<Integer(0), "opened", Nil, Integer(20)>>,
    <<Integer(MAX_ADMIN_LEVEL), "displayed", Integer(1), Integer(2)>>,
    <<Integer(0), "displayed", Integer(3), Integer(4)>>,
    <<Integer(0), "opened", Nil, Nil>>,
    <<Integer(MAX_ADMIN_LEVEL + 1), "opened", Integer(0), Integer(0)>>,
    <<Integer(0 - 1), "opened", Integer(0), Integer(0)>>,
    <<Other, "opened", Integer(0), Integer(0)>>,
    <<Integer(0), "some invalid category", Integer(0), Integer(0)>>,
    <<Integer(0), "opened", Integer(0 - 1), Integer(0)>>,
    <<Integer(0), "opened", Other, Integer(0)>>,
    <<Integer(0), "opened", Integer(0), Integer(0 - 1)>>,
    <<Integer(0), "opened", Integer(0), Other>>,
    <<Integer(0), "opened", Integer(0 - 1), Nil>> }

NextLevelLimits ==
  \/ \E c \in SetIds, a \in SetArgs : setAdminLevelDailyLimit(c, a[1], a[2], a[3], a[4])
  \/ \E c \in SetIds : setAdminLevelDailyLimitWrite(c)
  \/ adminOps < MaxAdminOps
       /\ \E l \in {Integer(0), Integer(MAX_ADMIN_LEVEL + 1)} :
            removeAdminLevelDailyLimits(l)

SpecLevelLimits == Init /\ [][NextLevelLimits]_vars

---------------------------------------------------------------------------
(* Daily limits of one admin: its own config over the limits of its level *)

Limit(category, alert, block) ==
  [category |-> category, alert |-> Integer(alert), block |-> Integer(block)]

\* dailyLimitConfig given to updateAdmin: null, {}, an object for one category,
\* and one that _validateDailyLimitConfig refuses
DailyLimitConfigs ==
  { {}, {{}}, {{Limit("opened", 3, 4)}}, {{Limit("opened", 0 - 1, 4)}} }

UserLimitPartials ==
  { [NoFields EXCEPT !.keys = {"dailyLimitConfig"}, !.dailyLimitConfig = d] :
      d \in DailyLimitConfigs } \cup
  { [NoFields EXCEPT !.keys = {"active"}, !.active = FALSE] }

\* the level of the seeded admin A@x, and the level of no admin
UserLimitArgs ==
  { <<Integer(1), "opened", Integer(1), Integer(2)>>,
    <<Integer(1), "displayed", Integer(5), Integer(6)>>,
    <<Integer(2), "opened", Integer(7), Integer(8)>> }

UserLimitEmails == {"a@x", "z@x"}

NextUserLimits ==
  \/ adminOps < MaxDirectoryOps /\ \E p \in UserLimitPartials : updateAdmin("A@x", p)
  \/ adminOps < MaxDirectoryOps
       /\ \E e \in UserLimitEmails : removeAdminUserDailyLimitConfig(e)
  \/ \E c \in SetIds, a \in UserLimitArgs :
       setAdminLevelDailyLimit(c, a[1], a[2], a[3], a[4])
  \/ \E c \in SetIds : setAdminLevelDailyLimitWrite(c)
  \/ \E e \in UserLimitEmails : AskDailyLimitConfig(e)

SpecUserLimits == Init /\ [][NextUserLimits]_vars

---------------------------------------------------------------------------
(* What callers are handed of an admin row: admins added with forms, a reset *)
(* recorded on a row, lookups and password logins                            *)

testForms == <<"passport", "bank_statement", "merchant">>

\* added with a list of forms, with the empty list, and without forms
FormsAdds ==
  { [NoFields EXCEPT !.keys = {"email", "password", "level", "forms"}, !.email = "b@x",
                     !.password = <<"p1">>, !.level = 1, !.forms = {testForms}],
    [NoFields EXCEPT !.keys = {"email", "password", "level", "forms"}, !.email = "b@x",
                     !.password = <<"p1">>, !.level = 1, !.forms = {<<>>}],
    [NoFields EXCEPT !.keys = {"email", "password", "level"}, !.email = "b@x",
                     !.password = <<"p1">>, !.level = 1] }

FieldLogins ==
  { [present |-> TRUE, keys |-> UserKeys, username |-> e, password |-> <<"p1">>] :
      e \in {"A@x", "b@x"} }

NextAdminFields ==
  \/ \E a \in AddIds, u \in FormsAdds : addAdmin(a, u)
  \/ \E a \in AddIds : addAdminInsert(a)
  \/ adminOps < MaxAdminOps /\ \E p \in ResetRequests : updateAdmin("A@x", p)
  \/ \E e \in {"b@x", "A@x"} : AskGetAdmin(Text(e), TRUE)
  \/ \E i \in LoginIds, u \in FieldLogins : loginAdmin(i, u, NoGoogle, LoginIp)
  \/ \E i \in LoginIds : _loginAdminPass(i)
  \/ \E i \in LoginIds : _createAdminToken(i, 0, TRUE)

SpecAdminFields == Init /\ [][NextAdminFields]_vars

---------------------------------------------------------------------------
(* Logins with a Google ID token and a client hint *)

\* conf.google.clientId, and the client ids of other applications
clientId == "web-id"
Audiences == { clientId, "android-id", "other-id" }
ClientKeys == { "", "webClient", "androidProd" }

ClientGoogles ==
  { [NoGoogle EXCEPT !.present = TRUE,
                     !.keys = CredentialKeys \cup (IF h = "" THEN {} ELSE {"clientKey"}),
                     !.clientKey = h,
                     !.credential = [signed |-> s, aud |-> a, email |-> "A@x"]] :
      h \in ClientKeys, a \in Audiences, s \in BOOLEAN }

NextClient ==
  \/ \E i \in LoginIds, g \in ClientGoogles : loginAdmin(i, NoUser, g, LoginIp)
  \/ \E i \in LoginIds :
       /\ "credential" \in logins[i].google.keys
       /\ _loginAdminGoogle(i, verifyIdToken(logins[i].google.credential))
  \/ \E i \in LoginIds : _validAdminUserGoogleEmail(i)
  \/ \E i \in LoginIds : _createAdminToken(i, 0, TRUE)

SpecClient == Init /\ [][NextClient]_vars

---------------------------------------------------------------------------
(* Vocabulary of the properties *)

Succeeded(i) == logins[i].pc = "done" /\ logins[i].res # {}
Result(i) == CHOOSE r \in logins[i].res : TRUE
Finished(v) == checks[v].pc = "done"
Data(v) == CHOOSE d \in checks[v].data : TRUE

\* the token records of both backends
TokenRecords == mongoTokens \cup JSONparse({ e.value : e \in redis })
AttemptToken(i) == ADM \o <<"-">> \o uuidv4(i)

AuthErrors ==
  { "AUTH_FAC_LOGIN_KEYS_MISSING", "AUTH_FAC_LOGIN_INCORRECT_USERNAME_PASSWORD",
    "AUTH_FAC_ACCOUNT_IS_NOT_VALID", "AUTH_FAC_INCORRECT_GOOGLE_TOKEN",
    "AUTH_FAC_ADMIN_TOKEN_CREATE_ERROR" }

\* the directory, read directly: some active admin of that email has level <= n
Grants(username, n) ==
  IF useDB
    THEN \E r \in admins : /\ toLowerCase(r.email) = toLowerCase(username)
                           /\ r.active = 1
                           /\ r.level <= n
    ELSE \E k \in DOMAIN ADM_USERS :
           /\ toLowerCase(ADM_USERS[k].email) = toLowerCase(username)
           /\ ADM_USERS[k].level <= n

---------------------------------------------------------------------------
(* C1: a token returned by a successful loginAdmin for admin E from ip I     *)
(* validates - checkAdminRedis([T, {ip: I}], level >= E's level) returns     *)
(* true - at every moment before its 8-hour expiry while E is unchanged,     *)
(* whichever token backend is configured.                                    *)
C1_IssuedTokenValidates ==
  \A i \in LoginIds, v \in CheckIds :
    ( /\ Succeeded(i)
      /\ Finished(v)
      /\ checks[v].authToken = <<logins[i].token, [ip |-> logins[i].ip]>>
      /\ checks[v].level >= Result(i).level
      /\ checks[v].startedAt < logins[i].expires_at
      /\ adminOps = 0 )
    => checks[v].result = "true"

(* C2: checkAdminRedis returns true for a presented (token, ip) only if a    *)
(* token record was issued for exactly that token and exactly that ip.       *)
C2_TokenBoundToIp ==
  \A v \in CheckIds :
    (Finished(v) /\ checks[v].result = "true")
    => \E i \in LoginIds :
         /\ Succeeded(i)
         /\ logins[i].token = checks[v].authToken[1]
         /\ logins[i].ip = checks[v].authToken[2].ip

(* C3: the validation that found a stored token returns true iff, at the     *)
(* moment of its directory read, the token's username resolves to an active  *)
(* admin whose current level is <= the required level; the level stored in   *)
(* the token record plays no part.                                           *)
C3_RecheckDirectory ==
  [][ \A v \in CheckIds :
        (checks[v].pc = "access" /\ checks'[v].pc = "done")
        => (checks'[v].result = "true" <=> Grants(Data(v).username, checks[v].level)) ]_vars

\* a validation refused although the level stored in the token record would pass
C3_Witness ==
  \E v \in CheckIds :
    /\ Finished(v)
    /\ checks[v].data # {}
    /\ checks[v].result = "false"
    /\ Data(v).level <= checks[v].level

(* C4: no validation that starts at or after the expiry instant of the token *)
(* record it reads (issuance + 8 hours) returns true.                        *)
C4_NoAcceptAfterExpiry ==
  \A v \in CheckIds :
    (Finished(v) /\ checks[v].result = "true")
    => checks[v].startedAt < Data(v).expires_at[2]

---------------------------------------------------------------------------
\* the form loginAdmin examines: user when supplied, google otherwise
ExaminedFormComplete(l) ==
  IF l.user.present
    THEN UserKeys \subseteq l.user.keys
    ELSE /\ l.google.present
         /\ (TokenKeys \subseteq l.google.keys \/ CredentialKeys \subseteq l.google.keys)

\* exactly one of the two forms is supplied, with all of its sub-fields
ExactlyOneComplete(l) ==
  /\ l.user.present # l.google.present
  /\ ExaminedFormComplete(l)

KeysMissing(l) ==
  /\ l.pc = "done"
  /\ l.cbCalls = 1
  /\ l.err = "AUTH_FAC_LOGIN_KEYS_MISSING"
  /\ l.res = {}
  /\ l.touched = {}

(* C5, as claimed: loginAdmin proceeds only when exactly one credential form *)
(* is supplied complete; with neither, both, or a sub-field missing it fails *)
(* with AUTH_FAC_LOGIN_KEYS_MISSING having consulted nothing.                *)
C5_ExactlyOneForm ==
  \A i \in LoginIds :
    (logins[i].pc # "idle" /\ ~ExactlyOneComplete(logins[i])) => KeysMissing(logins[i])

(* C5, amended: loginAdmin examines the user form when user is supplied and  *)
(* the google form otherwise; it proceeds iff the examined form is complete  *)
(* (a complete user form proceeds on the password path also when google is  *)
(* supplied too), and in every other case fails with                         *)
(* AUTH_FAC_LOGIN_KEYS_MISSING having consulted nothing.                     *)
C5_ExaminedForm ==
  \A i \in LoginIds :
    logins[i].pc # "idle"
    => IF ExaminedFormComplete(logins[i])
         THEN /\ logins[i].err # "AUTH_FAC_LOGIN_KEYS_MISSING"
              /\ logins[i].user.present => "provider" \notin logins[i].touched
              /\ ~logins[i].user.present
                   => logins[i].pc = "google" \/ "provider" \in logins[i].touched
         ELSE KeysMissing(logins[i])

\* both forms supplied, and the login went through on the password path;
\* another attempt, with only a credential-form google payload, went on too
C5_Witness ==
  \E i, j \in LoginIds :
    /\ logins[i].user.present /\ logins[i].google.present
    /\ Succeeded(i)
    /\ ~logins[j].user.present /\ logins[j].google.keys = CredentialKeys
    /\ "provider" \in logins[j].touched

(* C6: a token record exists in the token store for a login attempt iff the  *)
(* attempt reported success; an attempt that reached the token store and     *)
(* left no record reports AUTH_FAC_ADMIN_TOKEN_CREATE_ERROR and no result;   *)
(* no attempt reports both an error and a result.                            *)
C6_TokenIffSuccess ==
  \A i \in LoginIds :
    LET stored == { q \in TokenRecords : q.token = AttemptToken(i) }
    IN /\ stored # {} <=> Succeeded(i)
       /\ (logins[i].pc = "done" /\ "tokenStore" \in logins[i].touched /\ stored = {})
            => (logins[i].err = "AUTH_FAC_ADMIN_TOKEN_CREATE_ERROR" /\ logins[i].res = {})
       /\ logins[i].err # "" => logins[i].res = {}
       /\ Succeeded(i) => logins[i].err = ""

\* one attempt stored its token and succeeded, another was refused by the store
C6_Witness ==
  \E i, j \in LoginIds :
    /\ Succeeded(i)
    /\ { q \in TokenRecords : q.token = AttemptToken(i) } # {}
    /\ logins[j].err = "AUTH_FAC_ADMIN_TOKEN_CREATE_ERROR"

(* C7: every loginAdmin attempt that has run to its end has invoked its      *)
(* callback exactly once, with either an error or a result.                  *)
C7_CallbackExactlyOnce ==
  \A i \in LoginIds :
    logins[i].pc \in {"done", "rejected"}
    => /\ logins[i].cbCalls = 1
       /\ (logins[i].err = "") # (logins[i].res = {})

\* the cases of a password login that must be indistinguishable, read from the directory
KnownRows(username) ==
  IF useDB
    THEN { r \in admins : toLowerCase(r.email) = toLowerCase(username) }
    ELSE { ADM_USERS[k] : k \in { n \in DOMAIN ADM_USERS :
                                    toLowerCase(ADM_USERS[n].email) = toLowerCase(username) } }
IsActive(r) == useDB => r.active = 1
PasswordMatches(r, password) ==
  IF useDB THEN r.password = hash(password, HashSalt) ELSE r.password = password

UnknownUser(l) == KnownRows(l.user.username) = {}
InactiveAccount(l) ==
  KnownRows(l.user.username) # {} /\ \A r \in KnownRows(l.user.username) : ~IsActive(r)
NoStoredPassword(l) ==
  \E r \in KnownRows(l.user.username) : IsActive(r) /\ r.password = <<>>
WrongPassword(l) ==
  \E r \in KnownRows(l.user.username) :
    IsActive(r) /\ r.password # <<>> /\ ~PasswordMatches(r, l.user.password)
FailCase(l) ==
  UnknownUser(l) \/ InactiveAccount(l) \/ NoStoredPassword(l) \/ WrongPassword(l)

(* C8: a password login whose directory lookup answers ends in the same      *)
(* outcome - one callback, AUTH_FAC_LOGIN_INCORRECT_USERNAME_PASSWORD, no    *)
(* result, nothing written - whether the username is unknown, the account    *)
(* inactive, without a stored password, or the password wrong.               *)
C8_OneFailure ==
  [][ \A i \in LoginIds :
        (logins[i].pc = "pass" /\ logins'[i].pc \notin {"pass", "rejected"}
           /\ FailCase(logins[i]))
        => /\ logins'[i].pc = "done"
           /\ logins'[i].cbCalls = 1
           /\ logins'[i].err = "AUTH_FAC_LOGIN_INCORRECT_USERNAME_PASSWORD"
           /\ logins'[i].res = {}
           /\ TokenRecords' = TokenRecords ]_vars

\* two finished attempts, one for an account made inactive and one with a wrong
\* password, with the same outcome
C8_Witness ==
  \E i, j \in LoginIds :
    /\ logins[i].pc = "done" /\ logins[j].pc = "done"
    /\ logins[i].user.present /\ logins[j].user.present
    /\ logins[i].user.password = <<"p1">> /\ logins[i].user.username = "a@x"
    /\ InactiveAccount(logins[i])
    /\ logins[j].user.password = <<"p2">> /\ logins[j].user.username = "a@x"
    /\ logins[i].err = "AUTH_FAC_LOGIN_INCORRECT_USERNAME_PASSWORD"
    /\ <<logins[i].err, logins[i].res, logins[i].cbCalls>>
         = <<logins[j].err, logins[j].res, logins[j].cbCalls>>

(* C9: on the federated path a resolver failure - an exception, or a payload *)
(* without email - ends in AUTH_FAC_INCORRECT_GOOGLE_TOKEN, and an email     *)
(* that is no active admin ends in AUTH_FAC_ACCOUNT_IS_NOT_VALID.            *)
C9_FederatedErrors ==
  \A i \in LoginIds :
    (logins[i].pc = "done" /\ "provider" \in logins[i].touched)
    => /\ logins[i].email = "" => logins[i].err = "AUTH_FAC_INCORRECT_GOOGLE_TOKEN"
       /\ (logins[i].email # "" /\ logins[i].admin = {} /\ ~logins[i].storeErr)
            => logins[i].err = "AUTH_FAC_ACCOUNT_IS_NOT_VALID"

(* C10: a store error raised by the directory lookup inside loginAdmin is    *)
(* delivered to the login caller as that store failure: the callback is      *)
(* called once with an error that is none of the authentication errors.      *)
C10_StoreFailurePropagates ==
  \A i \in LoginIds :
    logins[i].storeErr
    => /\ logins[i].cbCalls = 1
       /\ logins[i].err # ""
       /\ logins[i].err \notin AuthErrors

---------------------------------------------------------------------------
\* errors of class UserError
UserErrors ==
  { "ADMIN_ACCOUNT_EXISTS", "Email cannot be updated",
    "Use Change Password endpoint to update user password",
    "ADMIN_ACCOUNT_DOES_NOT_EXIST_OR_IS_NOT_ACTIVE" }

SameIgnoringCase(e, f) == toLowerCase(e) = toLowerCase(f)

\* the step is the return of an updateAdmin / removeAdmin call
UpdateReturns == adminOps' # adminOps /\ adminCall'.op = "updateAdmin"
RemoveReturns == adminOps' # adminOps /\ adminCall'.op = "removeAdmin"

(* C11: in every reachable state of the admin table no two rows have emails  *)
(* that are equal ignoring case, also when addAdmin calls interleave between *)
(* their existence check and their insert.                                   *)
C11_UniqueIgnoringCase ==
  \A r, q \in admins : SameIgnoringCase(r.email, q.email) => r = q

(* C12: an addAdmin call whose email matches, ignoring case, a row that      *)
(* exists when it is called - active or not - fails with                     *)
(* ADMIN_ACCOUNT_EXISTS and leaves the admin table unchanged.                *)
C12_AddExistingRejected ==
  [][ \A a \in AddIds :
        ( /\ useDB
          /\ adds[a].pc = "idle" /\ adds'[a].pc # "idle"
          /\ \E r \in admins : SameIgnoringCase(r.email, adds'[a].user.email) )
        => /\ adds'[a].pc = "done"
           /\ adds'[a].err = "ADMIN_ACCOUNT_EXISTS"
           /\ admins' = admins ]_vars

(* C13: updateAdmin called with a partial that has an email field or a       *)
(* password field, whatever its value, fails with a UserError and mutates    *)
(* no row.                                                                   *)
C13_EmailPasswordRejected ==
  [][ ( /\ useDB
        /\ UpdateReturns
        /\ adminCall'.user.keys \cap {"email", "password"} # {} )
      => (adminCall'.err \in UserErrors /\ admins' = admins) ]_vars

(* C14: no step other than a removeAdmin changes the id or the email of an   *)
(* existing admin row.                                                       *)
C14_IdEmailImmutable ==
  [][ RemoveReturns
      \/ \A r \in admins : \E q \in admins' : q.id = r.id /\ q.email = r.email ]_vars

(* C15: every row of the admin table has an integer level in [0,4]; an add   *)
(* or update carrying another level is rejected before any write.            *)
C15_LevelInRange ==
  \A r \in admins : r.level \in MIN_ADMIN_LEVEL..MAX_ADMIN_LEVEL

---------------------------------------------------------------------------
\* the step is the return of the named read-only operation
Asks(op) == adminCall'.turn # adminCall.turn /\ adminCall'.op = op

\* the rows an email names, ignoring case, that are active
ActiveRows(email) == { r \in KnownRows(email) : IsActive(r) }

Answered(b) == adminCall'.err = "" /\ adminCall'.res = {b}

(* C16: checkAdmAccessLevel(email, N) returns true iff the email names an    *)
(* active admin whose level <= N: true for a level-0 admin and every N >= 0, *)
(* false for an unknown, removed or inactive email and every N.  (Should the *)
(* email name several rows, true needs one of them to qualify and is certain *)
(* when all do.)                                                             *)
C16_AccessLevel ==
  [][ Asks("checkAdmAccessLevel")
      => LET S == ActiveRows(adminCall'.target.text)
             N == adminCall'.level
         IN /\ adminCall'.err = ""
            /\ adminCall'.res \in {{TRUE}, {FALSE}}
            /\ adminCall'.res = {TRUE} => \E r \in S : r.level <= N
            /\ (S # {} /\ \A r \in S : r.level <= N) => adminCall'.res = {TRUE}
            /\ (S # {} /\ \A r \in S : r.level = 0) => adminCall'.res = {TRUE}
            /\ S = {} => adminCall'.res = {FALSE} ]_vars

\* refused at the most permissive level, because the only row of that email is inactive
C16_Witness ==
  /\ adminCall.op = "checkAdmAccessLevel"
  /\ adminCall.level = MAX_ADMIN_LEVEL
  /\ adminCall.res = {FALSE}
  /\ KnownRows(adminCall.target.text) # {}
  /\ ActiveRows(adminCall.target.text) = {}

FlagSet(r, k) == k \in DOMAIN r /\ r[k] = 1

\* the rule of each privilege check, from the level and the flags of a row
Rule(op, r) ==
  CASE op = "checkAdmIsReadOnly" -> FlagSet(r, "readOnly")
    [] op = "checkAdmHasBlockPrivilege" -> r.level = 0 \/ FlagSet(r, "blockPrivilege")
    [] op = "checkAdmHasAnalyticsPrivilege" -> r.level = 0 \/ FlagSet(r, "analyticsPrivilege")
    [] op = "checkAdmHasManageAdminsPrivilege"
         -> r.level = 0 /\ FlagSet(r, "manageAdminsPrivilege")
    [] op = "checkAdmHasFetchMotivationsPrivilege"
         -> r.level = 0 \/ FlagSet(r, "fetchMotivationsPrivilege")

(* C17: for an active admin the block, analytics and fetch-motivations       *)
(* checks are true iff level = 0 or the flag is set, the manage-admins check *)
(* iff level = 0 and its flag is set, the read-only check iff readOnly is    *)
(* set; each check fails with the admin-not-found error when the email names *)
(* no active admin.                                                          *)
C17_PrivilegeRules ==
  [][ \A op \in PrivilegeChecks :
        Asks(op)
        => LET S == ActiveRows(adminCall'.target.text)
           IN IF S = {}
                THEN /\ adminCall'.err = "Searched admin was not found"
                     /\ adminCall'.res = {}
                ELSE \E r \in S : Answered(Rule(op, r)) ]_vars

\* manage-admins refused to an admin above level 0 whose flag is set, and the
\* block check granted to the same admin by its flag
C17_Witness ==
  /\ adminCall.op = "checkAdmHasManageAdminsPrivilege"
  /\ adminCall.res = {FALSE}
  /\ \E r \in ActiveRows(adminCall.target.text) :
       /\ r.level > 0
       /\ FlagSet(r, "manageAdminsPrivilege")
       /\ FlagSet(r, "blockPrivilege")
       /\ checkAdmHasBlockPrivilege(r.email).res = {TRUE}

C19_GetAdminById ==
  [][ (Asks("getAdmin") /\ adminCall'.target.isNum)
      => \A r \in admins :
           (r.id = adminCall'.target.num /\ r.active = 1)
           => /\ adminCall'.err = ""
              /\ adminCall'.res = getAdmin(Text(r.email), adminCall'.active).res ]_vars

---------------------------------------------------------------------------
NotActive == "ADMIN_ACCOUNT_DOES_NOT_EXIST_OR_IS_NOT_ACTIVE"

\* the partial sets active to true
Reactivates(user) == "active" \in user.keys /\ user.active

\* a password login with these credentials passes the directory
CanLogIn(username, password) ==
  \E r \in ActiveRows(username) : r.password # <<>> /\ PasswordMatches(r, password)

(* C20: updateAdmin requires its target to exist; when the partial sets      *)
(* active to true the target is looked up among all rows, so a deactivated   *)
(* admin is reactivated, is then found by the default lookup and can log in  *)
(* again; an update that does not reactivate and is aimed at a deactivated   *)
(* or unknown admin fails with ADMIN_ACCOUNT_DOES_NOT_EXIST_OR_IS_NOT_ACTIVE *)
(* and changes nothing.                                                      *)
C20_Reactivation ==
  [][ /\ (useDB /\ UpdateReturns)
        =>
           \A e \in {"A@x", "z@x"}, u \in ReactivatePartials :
             (adminCall'.target = Text(e) /\ adminCall'.user = u) =>
              /\ (KnownRows(e) = {} \/ (~Reactivates(u) /\ ActiveRows(e) = {}))
                   => (adminCall'.err = NotActive /\ admins' = admins)
              /\ (Reactivates(u) /\ KnownRows(e) # {})
                   => /\ adminCall'.err = ""
                      /\ ActiveRows(e)' # {}
                      /\ _getAdmin(e, TRUE)' # {}
                      /\ \A r \in KnownRows(e) : r.password # <<>>
                           => basicAuthAdmLogCheck(e, <<"p1">>)'.valid
                                = PasswordMatches(r, <<"p1">>)
      /\ \A i \in LoginIds :
           (logins[i].pc = "pass" /\ logins'[i].pc # "pass")
           => /\ logins'[i].pc = "create"
                   <=> CanLogIn(logins[i].user.username, logins[i].user.password)
              /\ logins'[i].pc # "create"
                   => logins'[i].err = "AUTH_FAC_LOGIN_INCORRECT_USERNAME_PASSWORD" ]_vars

\* the first login was refused with the right password - the account was
\* deactivated - then updateAdmin(email, {active: true}) returned, the default
\* lookup finds the admin, and the second login with the same password succeeded
C20_Witness ==
  /\ logins[1].pc = "done" /\ logins[1].err = "AUTH_FAC_LOGIN_INCORRECT_USERNAME_PASSWORD"
  /\ Succeeded(2)
  /\ logins[1].user = logins[2].user
  /\ adminOps = 2
  /\ getAdmin(Text(logins[2].user.username), TRUE).res # {}
  /\ adminCall.op = "getAdmin" /\ adminCall.active /\ adminCall.res # {}

---------------------------------------------------------------------------
\* the rows a removeAdmin argument names: by id, by email ignoring case
Named(idOrEmail) ==
  { r \in admins : \/ ToString(r.id) = idOrEmail.text
                   \/ SameIgnoringCase(r.email, idOrEmail.text) }

---------------------------------------------------------------------------
\* addAdmin call a returned an admin with a password, and the row it inserted is
\* still there, active and with the password it was given
Added(a) ==
  /\ adds[a].pc = "done" /\ adds[a].res # {} /\ adds[a].user.password # <<>>
  /\ \E r \in admins :
       /\ r.id = (CHOOSE x \in adds[a].res : TRUE).id
       /\ r.email = adds[a].user.email
       /\ r.active = 1
       /\ r.password = hash(adds[a].user.password, HashSalt)

(* C22: for every admin that addAdmin added with a password P and that is    *)
(* still in the table as added, a password login with the admin's email      *)
(* passes the credential check if its password is P and fails it with        *)
(* AUTH_FAC_LOGIN_INCORRECT_USERNAME_PASSWORD if its password is not P.      *)
C22_AddedAdminLogsIn ==
  [][ \A i \in LoginIds, a \in AddIds :
        (/\ logins[i].pc = "pass" /\ logins'[i].pc # "pass"
         /\ Added(a)
         /\ logins[i].user.username = adds[a].user.email)
        => IF logins[i].user.password = adds[a].user.password
             THEN logins'[i].pc = "create"
             ELSE /\ logins'[i].pc = "done"
                  /\ logins'[i].err = "AUTH_FAC_LOGIN_INCORRECT_USERNAME_PASSWORD" ]_vars

---------------------------------------------------------------------------
\* the stored password of the row is a hash that this password verifies against
Verifies(password, r) == r.password # <<>> /\ verify(password, r.password)

(* C23: updateAdminPassword(email, newPassword, oldPassword) for an active   *)
(* admin stores the hash of newPassword iff oldPassword verifies against the *)
(* stored hash; otherwise - wrong old password, or a stored password that is *)
(* NULL or empty - it fails with INVALID_PASSWORD and the row is unchanged.  *)
(* After a success a login with the new password passes and one with the old *)
(* password fails.                                                           *)
C23_PasswordChange ==
  [][ (useDB /\ Asks("updateAdminPassword"))
      => \A e \in ChangeEmails, new \in NewPasswords, old \in OldPasswords :
           (/\ adminCall'.target = Text(e) /\ ActiveRows(e) # {}
            /\ adminCall'.user.password = new /\ adminCall'.oldPassword = old)
           => LET r == Row(_getAdmin(e, TRUE))
              IN IF Verifies(old, r)
                   THEN /\ adminCall'.err = ""
                        /\ admins' = (admins \ {r})
                                       \cup {[r EXCEPT !.password = hash(new, HashSalt)]}
                        /\ basicAuthAdmLogCheck(e, new)'.valid
                        /\ old # new => ~basicAuthAdmLogCheck(e, old)'.valid
                   ELSE /\ adminCall'.err = "INVALID_PASSWORD"
                        /\ admins' = admins ]_vars

---------------------------------------------------------------------------
(* C24: resetAdminPassword for an active admin stores the new password iff   *)
(* the token given is exactly the row's passwordResetToken and the time of   *)
(* the call is at most 24 hours after the row's passwordResetSentAt; a       *)
(* different token fails with INVALID_passwordResetToken, a link older than  *)
(* 24 hours with RESET_LINK_EXPIRED, both leaving the row unchanged; so with *)
(* token and sent-at both NULL no token value resets the password.           *)
C24_ResetTokenAndWindow ==
  [][ (useDB /\ Asks("resetAdminPassword"))
      => \A e \in {"a@x", "G@x", "z@x"} :
           (adminCall'.target = Text(e) /\ ActiveRows(e) # {})
           => LET r == Row(_getAdmin(e, TRUE))
                  token == adminCall'.passwordResetToken
              IN /\ IF r.passwordResetToken # token
                      THEN /\ adminCall'.err = "INVALID_passwordResetToken"
                           /\ admins' = admins
                    ELSE IF now > DateOf(r.passwordResetSentAt) + 24 * HourMs
                      THEN /\ adminCall'.err = "RESET_LINK_EXPIRED"
                           /\ admins' = admins
                      ELSE /\ adminCall'.err = ""
                           /\ admins' = (admins \ {r}) \cup
                                {[r EXCEPT !.password =
                                    hash(adminCall'.user.password, HashSalt)]}
                 /\ (r.passwordResetToken = <<>> /\ r.passwordResetSentAt = NULL)
                      => (adminCall'.err # "" /\ admins' = admins) ]_vars

---------------------------------------------------------------------------
(* C25: with conf.useDB false, every call of addAdmin, updateAdmin,          *)
(* removeAdmin, updateAdminPassword and resetAdminPassword ends at once with *)
(* an AssertionError and without result, and the directory answers every     *)
(* lookup as it did before the call.                                         *)
C25_ConfigModeRejectsMutations ==
  [][ ~useDB
      => /\ (adminCall'.turn # adminCall.turn /\ adminCall'.op \in MutationOps)
              => (adminCall'.err = "AssertionError" /\ adminCall'.res = {})
         /\ \A a \in AddIds :
              (adds[a].pc = "idle" /\ adds'[a].pc # "idle")
              => /\ adds'[a].pc = "done"
                 /\ adds'[a].err = "AssertionError"
                 /\ adds'[a].res = {}
         /\ admins' = admins
         /\ \A e \in {"a@x", "n@x", "g@x"}, b \in BOOLEAN :
              _getAdmin(e, b)' = _getAdmin(e, b) ]_vars

\* config-only mode: an addAdmin and a resetAdminPassword were called and failed
C25_Witness ==
  /\ ~useDB
  /\ adminCall.op = "resetAdminPassword" /\ adminCall.err = "AssertionError"
  /\ adminOps = MaxDirectoryOps
  /\ \E a \in AddIds : adds[a].pc = "done" /\ adds[a].err = "AssertionError"
  /\ _getAdmin("a@x", TRUE) # {}

---------------------------------------------------------------------------
\* the row stored for the key of call c
StoredFor(c) ==
  { r \in limits : r.level = sets[c].level /\ r.category = sets[c].category }

\* call c leaves its first part in this step / is completed by its write in this step
SetCalled(c) == sets[c].pc = "idle" /\ sets'[c].pc # "idle"
SetWritten(c) == sets[c].pc = "write" /\ sets'[c].pc = "done"

(* C26: a setAdminLevelDailyLimit call that supplies neither alert nor block *)
(* fails; when no row exists for (level, category) the call goes on to its   *)
(* INSERT only if it supplies both, and the INSERT stores the supplied pair; *)
(* when a row exists, the call's UPDATE sets the supplied values on it and   *)
(* leaves a value that was not supplied as stored.                           *)
C26_CreateNeedsBothUpdateTakesOne ==
  [][ \A c \in SetIds :
        /\ SetCalled(c)
             => LET call == sets'[c]
                    existing == getAdminLevelDailyLimit(call.level, call.category)
                IN /\ (isNil(call.alert) /\ isNil(call.block)) => call.err # NoError
                   /\ (existing = {} /\ (isNil(call.alert) \/ isNil(call.block)))
                        => call.err # NoError
                   /\ call.err # NoError => (call.pc = "done" /\ call.res = {})
        /\ (SetWritten(c) /\ sets'[c].err = NoError)
             => LET call == sets[c]
                IN /\ sets'[c].res = {TRUE}
                   /\ ~(isNil(call.alert) /\ isNil(call.block))
                   /\ call.existingLevelDailyLimit = {}
                        => /\ ~isNil(call.alert) /\ ~isNil(call.block)
                           /\ limits' = limits \cup
                                {[level |-> call.level, category |-> call.category,
                                  alert |-> call.alert, block |-> call.block]}
                   /\ (call.existingLevelDailyLimit # {} /\ StoredFor(c) # {})
                        => \E r \in StoredFor(c) :
                             limits' = (limits \ {r}) \cup
                               {[r EXCEPT
                                   !.alert = IF isNil(call.alert) THEN r.alert
                                             ELSE call.alert,
                                   !.block = IF isNil(call.block) THEN r.block
                                             ELSE call.block]} ]_vars

\* created with {alert: 0, block: 0}, updated with {alert: 10}: {10, 0} is stored
C26_Witness ==
  /\ sets[1].pc = "done" /\ sets[1].res = {TRUE}
  /\ sets[1].alert = Integer(0) /\ sets[1].block = Integer(0)
  /\ sets[2].pc = "done" /\ sets[2].res = {TRUE}
  /\ sets[2].alert = Integer(10) /\ isNil(sets[2].block)
  /\ sets[2].existingLevelDailyLimit = {[alert |-> Integer(0), block |-> Integer(0)]}
  /\ limits = {[level |-> Integer(0), category |-> "opened",
                alert |-> Integer(10), block |-> Integer(0)]}

\* a value that some check of setAdminLevelDailyLimit refuses
InvalidLevel(v) ==
  ~(v.t = "int" /\ v.n \in MIN_ADMIN_LEVEL..MAX_ADMIN_LEVEL)
InvalidAmount(v) == ~isNil(v) /\ ~NonNegativeInteger(v)

AmountMessage(field) ==
  "When " \o field \o " value is provided, must be integer and greater or equal to zero"

BothNeeded ==
  "When creating an admin level daily limit both alert and block must be provided"

---------------------------------------------------------------------------
\* the entries of category c in a config that may be null
EntryOf(config, c) == { e \in UNION config : e.category = c }

\* the admin's own config and the limits of its level, as the store holds them
OwnConfig(r) == parseConfig(r.dailyLimitConfig)
LevelConfig(r) ==
  LET rows == { l \in limits : l.level = Integer(r.level) }
  IN IF rows = {} THEN {}
     ELSE { { [category |-> l.category, alert |-> l.alert, block |-> l.block] :
                l \in rows } }

\* the value the call of this step returned: null or an object
ResolvedConfig == { b.object : b \in adminCall'.res }

\* getAdminUserDailyLimitConfig(e) returns in this step, without error
Resolved(e) ==
  /\ adminCall'.turn # adminCall.turn
  /\ adminCall'.op = "getAdminUserDailyLimitConfig"
  /\ adminCall'.target = Text(e)
  /\ adminCall'.err = ""

(* C28: for every active admin and every category, the config that           *)
(* getAdminUserDailyLimitConfig returns has for the category the admin's own *)
(* entry when there is one, otherwise the limit stored for the admin's level *)
(* and the category, otherwise no entry.                                     *)
C28_ResolvedPerCategory ==
  [][ \A e \in UserLimitEmails :
        (useDB /\ Resolved(e) /\ _getAdmin(e, TRUE) # {})
        => LET r == Row(_getAdmin(e, TRUE))
           IN \A c \in VALID_DAILY_LIMIT_CATEGORIES :
                EntryOf(ResolvedConfig, c) =
                  IF EntryOf(OwnConfig(r), c) # {} THEN EntryOf(OwnConfig(r), c)
                  ELSE EntryOf(LevelConfig(r), c) ]_vars

(* C29: getAdminUserDailyLimitConfig of an active admin returns the admin's  *)
(* own config when it has an entry, the object of the limits of the admin's  *)
(* level when the own config is null or an object without entries, and null  *)
(* when there is neither.                                                    *)
C29_EmptyOwnConfigFallsBack ==
  [][ \A e \in UserLimitEmails :
        (useDB /\ Resolved(e) /\ _getAdmin(e, TRUE) # {})
        => LET r == Row(_getAdmin(e, TRUE))
           IN ResolvedConfig =
                IF UNION OwnConfig(r) # {} THEN OwnConfig(r) ELSE LevelConfig(r) ]_vars

(* C30: getAdminUserDailyLimitConfig and removeAdminUserDailyLimitConfig,    *)
(* called with an email of no active admin, fail with                        *)
(* ADMIN_ACCOUNT_DOES_NOT_EXIST_OR_IS_NOT_ACTIVE, return nothing and leave   *)
(* the admin table as it is.                                                 *)
C30_UnknownAdminRefused ==
  [][ \A e \in UserLimitEmails :
        ( /\ adminCall'.turn # adminCall.turn
          /\ adminCall'.op \in { "getAdminUserDailyLimitConfig",
                                  "removeAdminUserDailyLimitConfig" }
          /\ adminCall'.target = Text(e)
          /\ _getAdmin(e, TRUE) = {} )
        => /\ adminCall'.err = "ADMIN_ACCOUNT_DOES_NOT_EXIST_OR_IS_NOT_ACTIVE"
           /\ adminCall'.res = {}
           /\ admins' = admins ]_vars

---------------------------------------------------------------------------
\* removeAdminUserDailyLimitConfig(e) returns true in this step
OverrideRemoved(e) ==
  /\ adminCall'.turn # adminCall.turn
  /\ adminCall'.op = "removeAdminUserDailyLimitConfig"
  /\ adminCall'.target = Text(e)
  /\ adminCall'.res = {TRUE}

(* C31: when removeAdminUserDailyLimitConfig(email) succeeds, the admin's    *)
(* dailyLimitConfig column is NULL afterwards, getAdminUserDailyLimitConfig  *)
(* then returns the object of the limits of the admin's level (null when the *)
(* level has none), and every other column of the row, every other admin row *)
(* and every level daily-limit row is as before.                             *)
C31_OverrideRemoved ==
  [][ \A e \in UserLimitEmails :
        OverrideRemoved(e)
        => /\ _getAdmin(e, TRUE) # {}
           /\ LET r == Row(_getAdmin(e, TRUE))
              IN /\ admins' = (admins \ {r}) \cup {[r EXCEPT !.dailyLimitConfig = {}]}
                 /\ getAdminUserDailyLimitConfig(e)' =
                      [err |-> "", res |-> LevelConfig(r)]
           /\ limits' = limits ]_vars

\* the override of a@x has just been removed and the limits of its level answer
C31_Witness ==
  /\ adminCall.op = "removeAdminUserDailyLimitConfig" /\ adminCall.res = {TRUE}
  /\ adminCall.target = Text("a@x")
  /\ adminOps = MaxDirectoryOps
  /\ \E r \in admins : r.email = "A@x" /\ r.dailyLimitConfig = {}
  /\ getAdminUserDailyLimitConfig("a@x").res =
       { { Limit("opened", 1, 2), Limit("displayed", 5, 6) } }

---------------------------------------------------------------------------
\* removeAdminLevelDailyLimits(l) returns true in this step
LevelRemoved(l) ==
  /\ adminCall'.turn # adminCall.turn
  /\ adminCall'.op = "removeAdminLevelDailyLimits"
  /\ adminCall'.level = l
  /\ adminCall'.res = {TRUE}

(* C32: when removeAdminLevelDailyLimits(L) succeeds, the rows of level L    *)
(* are gone whatever their category, the rows of every other level and all   *)
(* admin rows are as before, and getAdminLevelDailyLimit(L, C) is null for   *)
(* every category C.                                                         *)
C32_LevelLimitsRemoved ==
  [][ \A l \in MIN_ADMIN_LEVEL..MAX_ADMIN_LEVEL :
        LevelRemoved(l)
        => /\ limits' = { r \in limits : r.level # Integer(l) }
           /\ admins' = admins
           /\ \A c \in VALID_DAILY_LIMIT_CATEGORIES :
                getAdminLevelDailyLimit(Integer(l), c)' = {} ]_vars

\* a limit of level 0 was set and the level removed; the row of level 4 is left
C32_Witness ==
  /\ adminCall.op = "removeAdminLevelDailyLimits" /\ adminCall.res = {TRUE}
  /\ adminCall.level = 0
  /\ \E c \in SetIds : /\ sets[c].pc = "done" /\ sets[c].res = {TRUE}
                       /\ sets[c].level = Integer(0)
  /\ limits = {[level |-> Integer(MAX_ADMIN_LEVEL), category |-> "displayed",
                alert |-> Integer(1), block |-> Integer(2)]}

---------------------------------------------------------------------------
\* the forms a succeeded addAdmin call was given for the email, if any
FormsGiven(e) ==
  UNION { adds[a].user.forms :
            a \in { b \in AddIds : /\ adds[b].pc = "done" /\ adds[b].res # {}
                                    /\ adds[b].user.email = e } }

\* a value is the JSON text of a list and not a list
Serialized(value) == \E t \in value : Len(t) = 2 /\ t[1] = "json"

\* what a succeeded login handed of the row's forms, if the row has the column
FormsHanded(l) ==
  IF l.pc = "done" /\ l.res # {} /\ "forms" \in DOMAIN (CHOOSE r \in l.res : TRUE).extra
    THEN (CHOOSE r \in l.res : TRUE).extra.forms
    ELSE {}

(* C33: getAdmin(email) of an admin that addAdmin added with the list forms  *)
(* returns forms as that list, elements and order as given; and no value of  *)
(* forms handed to a caller - by getAdmin or in the result of a login - is   *)
(* the serialized text.                                                      *)
C33_FormsRoundTrip ==
  [][ /\ \A e \in {"b@x"} :
           ( /\ Asks("getAdmin") /\ adminCall'.target = Text(e)
             /\ adminCall'.res # {} /\ useDB )
           => LET admin == CHOOSE r \in adminCall'.res : TRUE
              IN /\ admin.forms = FormsGiven(e)
                 /\ ~Serialized(admin.forms)
      /\ \A i \in LoginIds : ~Serialized(FormsHanded(logins'[i])) ]_vars

---------------------------------------------------------------------------
(* C39: the result that a successful loginAdmin passes to its callback holds *)
(* neither the admin's stored password hash nor a passwordResetToken that is *)
(* set on the admin's row.                                                   *)
C39_LoginResultWithoutSecrets ==
  \A i \in LoginIds :
    Succeeded(i)
    => /\ "password" \notin DOMAIN Result(i) \cup DOMAIN Result(i).extra
       /\ "passwordResetToken" \in DOMAIN Result(i).extra
            => Result(i).extra.passwordResetToken = <<>>

---------------------------------------------------------------------------
\* the clients of the README's example, by key, and the client an audience selects
GoogleClients == [webClient |-> clientId, androidProd |-> "android-id"]
ClientOfAudience(aud) == { k \in DOMAIN GoogleClients : GoogleClients[k] = aud }

\* identity resolution of login i has returned an email
IdentityResolved(i) ==
  /\ "provider" \in logins[i].touched
  /\ logins[i].err # "AUTH_FAC_INCORRECT_GOOGLE_TOKEN"

(* C34: when a login carries a client hint (clientKey), its identity         *)
(* resolution succeeds only if the client that the token's audience selects  *)
(* among the configured client ids is the hinted client.                     *)
C34_HintMustMatchAudience ==
  \A i \in LoginIds :
    (IdentityResolved(i) /\ logins[i].google.clientKey # "")
    => ClientOfAudience(logins[i].google.credential.aud) = {logins[i].google.clientKey}

---------------------------------------------------------------------------
\* call b runs its INSERT in this step while the row that another call for the
\* same email inserted since b's existence check is in the table
LosesRace(b) ==
  /\ adds[b].pc = "insert" /\ adds'[b].pc = "done"
  /\ \E a \in AddIds \ {b} :
       /\ adds[a].pc = "done" /\ adds[a].user.email = adds[b].user.email
       /\ \E won \in adds[a].res, r \in admins :
            r.id = won.id /\ r.email = adds[b].user.email

(* C35: of two addAdmin calls for the same email that both pass the          *)
(* existence check before either inserts, the one that inserts second fails  *)
(* with ADMIN_ACCOUNT_EXISTS, returns nothing and adds no row.               *)
C35_RaceLoserAccountExists ==
  [][ \A b \in AddIds :
        LosesRace(b)
        => /\ adds'[b].err = "ADMIN_ACCOUNT_EXISTS"
           /\ adds'[b].res = {}
           /\ admins' = admins ]_vars


\* the rows stored for the key of call c
RowsOfKey(c, rows) ==
  { r \in rows : r.level = sets[c].level /\ r.category = sets[c].category }

\* call c read no row for its key, and a row is there when its INSERT is executed
InsertCollides(c) ==
  /\ sets[c].pc = "write"
  /\ sets[c].existingLevelDailyLimit = {}
  /\ RowsOfKey(c, limits) # {}

\* the rows after the write of call c is applied to the rows stored
WriteApplied(c) ==
  IF sets[c].existingLevelDailyLimit = {}
    THEN limits \cup {[level |-> sets[c].level, category |-> sets[c].category,
                       alert |-> sets[c].alert, block |-> sets[c].block]}
    ELSE { IF r \in RowsOfKey(c, limits)
             THEN [r EXCEPT !.alert = IF isNil(sets[c].alert) THEN @ ELSE sets[c].alert,
                            !.block = IF isNil(sets[c].block) THEN @ ELSE sets[c].block]
             ELSE r : r \in limits }

(* C36: when the INSERT of a setAdminLevelDailyLimit call that read no row   *)
(* meets a row written for its key in between, the call is rejected with the *)
(* constraint failure and resolves nothing, and the table is left as it was; *)
(* every write that succeeds leaves the table as that write applied to the   *)
(* rows stored when the database executed it; and the table never holds two  *)
(* rows for one (level, category).                                           *)
C36_ConstraintViolationSurfaced ==
  [][ /\ \A c \in SetIds :
           SetWritten(c)
             => /\ InsertCollides(c)
                     => /\ sets'[c].err = Failure("SQLITE_CONSTRAINT", "", "")
                        /\ sets'[c].res = {}
                        /\ limits' = limits
                /\ sets'[c].err = NoError
                     => /\ sets'[c].res = {TRUE}
                        /\ limits' = WriteApplied(c)
      /\ \A r, q \in limits' :
           (r.level = q.level /\ r.category = q.category) => r = q ]_vars

\* two calls created the same key, the second lost at the primary key
C36_Witness ==
  /\ sets[1].pc = "done" /\ sets[2].pc = "done"
  /\ sets[1].level = sets[2].level /\ sets[1].category = sets[2].category
  /\ sets[1].existingLevelDailyLimit = {} /\ sets[2].existingLevelDailyLimit = {}
  /\ sets[1].res = {TRUE} /\ sets[2].res = {}
  /\ sets[2].err = Failure("SQLITE_CONSTRAINT", "", "")
  /\ limits = {[level |-> sets[1].level, category |-> sets[1].category,
                alert |-> sets[1].alert, block |-> sets[1].block]}


\* the values call c supplied are stored for its key
SuppliedStored(c) ==
  \E r \in RowsOfKey(c, limits') :
    /\ isNil(sets[c].alert) \/ r.alert = sets[c].alert
    /\ isNil(sets[c].block) \/ r.block = sets[c].block

(* C38: when a setAdminLevelDailyLimit call resolves true, its write has     *)
(* taken effect: the table then has a row for the call's (level, category)   *)
(* that holds the values the call supplied.                                  *)
C38_ResolvedWriteTookEffect ==
  [][ \A c \in SetIds :
        (SetWritten(c) /\ sets'[c].res = {TRUE}) => SuppliedStored(c) ]_vars


\* the call that returns in this step is a resetAdminPassword that presents, for
\* the same admin, the token with which the reset that returned last succeeded
TokenUsedAgain ==
  /\ adminCall.op = "resetAdminPassword" /\ adminCall.err = ""
  /\ adminCall'.turn # adminCall.turn
  /\ adminCall'.op = "resetAdminPassword"
  /\ adminCall'.target = adminCall.target
  /\ adminCall'.passwordResetToken = adminCall.passwordResetToken

(* C40: a password-reset token is single-use: a resetAdminPassword that      *)
(* presents, for the same admin, the token with which the reset before it    *)
(* succeeded, fails.                                                         *)
C40_ResetTokenSingleUse ==
  [][ TokenUsedAgain => adminCall'.err # "" ]_vars


\* the columns of admin_users that addAdmin, updateAdmin, the password operations
\* and removeAdminUserDailyLimitConfig write
WrittenColumns ==
  { "email", "password", "level", "active", "readOnly", "blockPrivilege",
    "analyticsPrivilege", "manageAdminsPrivilege", "fetchMotivationsPrivilege",
    "company", "passwordResetToken", "passwordResetSentAt", "forms", "dailyLimitConfig" }

\* this step is one of a run of a list that has run on the file before
RunsAgain == schema.pc \in {"sql", "migrate"} /\ schema.list \in schema.ran

\* this step completes a run of the list
ListCompleted == schema.pc = "migrate" /\ schema'.pc = "started"

(* C37: no migration raises an error; a run of a list that has already run   *)
(* on the file changes nothing; and when the list has run, admin_users has   *)
(* every column the directory operations write, dailyLimitConfig included,   *)
(* and the level daily-limit table exists under the name the daily-limit     *)
(* operations query.                                                         *)
C37_MigrationsIdempotentAndComplete ==
  [][ /\ schema'.pc # "failed" /\ schema'.db.err = ""
      /\ RunsAgain => schema'.db = schema.db
      /\ ListCompleted
           => /\ WrittenColumns \subseteq schema'.db.columns
              /\ DB_TABLES.ADMIN_LEVEL_DAILY_LIMITS \in schema'.db.tables ]_vars

====
